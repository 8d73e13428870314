------------------------------- MODULE UdpIfc -------------------------------
(***************************************************************************)
(* One connection of the UDP interconnect (cdb/motion/ic_udpifc.c) during  *)
(* one statement: the sending process, the receiving process with its main *)
(* thread and its background thread (the rx thread), and a network that    *)
(* loses, duplicates and reorders packets.                                 *)
(*                                                                         *)
(* The sender cuts a stream of tuples into packets numbered from 1; the    *)
(* last one has the flag EOS.  A packet is represented by its number.      *)
(* Steps under ic_control_info.lock are atomic.  Which of several packets  *)
(* are resent, and how far the congestion window lets the sender go, is    *)
(* left open.  The sender's other connections show in two ways: while it   *)
(* waits for one of them it reads the acks of this one too, and with loss  *)
(* based flow control they use send buffers of the same pool.              *)
(***************************************************************************)
EXTENDS Integers, Sequences, FiniteSets, Functions

CONSTANTS
    Packets,         \* number of packets of the stream; the last is the EOS
    QueueDepth,      \* gp_interconnect_queue_depth
    SndQueueDepth,   \* gp_interconnect_snd_queue_depth
    LossFC,          \* gp_interconnect_fc_method is loss, not capacity
    Conns,           \* connections of the sender, this one included
    MaxInFlight      \* bound on the packets in flight

ASSUME DepthAssumption ==
    /\ Packets \in Nat \ {0}
    /\ QueueDepth \in Nat \ {0}
    /\ SndQueueDepth \in Nat \ {0}
    /\ LossFC \in BOOLEAN
    /\ Conns \in Nat \ {0}
    /\ MaxInFlight \in Nat /\ MaxInFlight >= QueueDepth

Seq1 == 1..Packets
Pos == 0..(QueueDepth - 1)
NoPacket == 0

\* Defined here because the proofs expand them.
Min(S) == CHOOSE x \in S : \A y \in S : x <= y
Max(S) == CHOOSE x \in S : \A y \in S : x >= y
Larger(a, b) == IF a >= b THEN a ELSE b

VARIABLES
    \* The network.
    net,             \* messages in flight, in both directions
    \* The sender and its MotionConn.
    pc,              \* "run": the executor fills curBuff; "wait": SendChunk
                     \* waits for a buffer; "eos": SendEos waits; "closed"
    sndSeq,          \* conn_info.seq, the number of the next packet
    sndQueue,
    unackQueue,      \* a set: the list is in the order of the numbers
    capacity,
    consumedSeq,
    receivedAckSeq,
    started,         \* state = mcsStarted, after the first ack
    stopRequested,
    \* The receiver and its MotionConn.
    main,            \* main thread: "setup", "cached", "idle", "wait", "read",
                     \* "eos", "stopped", "torn"
    conn,
    cache,           \* packets in startupCacheHtab
    reached,         \* mainWaitingState.reachRoute
    delivered        \* packets handed to the executor

sender == <<pc, sndSeq, sndQueue, unackQueue, capacity, consumedSeq,
            receivedAckSeq, started, stopRequested>>
receiver == <<main, conn, cache, reached, delivered>>
vars == <<net, sender, receiver>>

-----------------------------------------------------------------------------
(* Messages and connections.                                                *)

Data(s) == [type |-> "data", seq |-> s]

\* A status query message has no data and the flag CAPACITY.
Query(s) == [type |-> "query", seq |-> s]

\* An ack with ACK and CAPACITY: everything up to s has arrived, everything up
\* to extra was consumed, and STOP if the receiver wants no more.
Ack(s, extra, stop) == [type |-> "ack", seq |-> s, extraSeq |-> extra, stop |-> stop]

\* Packet s arrived twice, everything up to extra has arrived.
DupAck(s, extra) == [type |-> "dup", seq |-> s, extraSeq |-> extra]

\* Packet s arrived before the packets in lost.
DisorderAck(s, lost) == [type |-> "disorder", seq |-> s, lost |-> lost]

\* The receiver's MotionConn after SetupUDPIFCInterconnect(); q is the ring
\* pkt_q, eos and stop are the flags in conn_info.flags (stop is also
\* stopRequested), peer tells whether the sender's address is known.
NewConn ==
    [seq |-> 1, extraSeq |-> 0, q |-> [i \in Pos |-> NoPacket], head |-> 0,
     tail |-> 0, size |-> 0, eos |-> FALSE, stop |-> FALSE, active |-> TRUE,
     peer |-> FALSE]

IsEos(s) == s = Packets

\* Mutant: the ring starts with packet 0.
PosOfZero(s) == s % QueueDepth

\* Position of a packet in the ring.
PosOf(s) == (s - 1) % QueueDepth

Init ==
    /\ net = {}
    /\ pc = "run"
    /\ sndSeq = 1
    /\ sndQueue = <<>>
    /\ unackQueue = {}
    /\ capacity = QueueDepth
    /\ consumedSeq = 0
    /\ receivedAckSeq = 0
    /\ started = FALSE
    /\ stopRequested = FALSE
    /\ main = "setup"
    /\ conn = NewConn
    /\ cache = {}
    /\ reached = FALSE
    /\ delivered = <<>>

-----------------------------------------------------------------------------
(* The sender.                                                              *)

\* Packets are put on the network.  MaxInFlight bounds what it carries: when
\* there would be more, older packets are lost.
Transmit(rest, new) ==
    \E old \in SUBSET (rest \ new) :
        /\ \/ old = rest \ new /\ Cardinality(old \cup new) <= MaxInFlight
           \/ Cardinality(rest \cup new) > MaxInFlight /\ Cardinality(old \cup new) = MaxInFlight
        /\ net' = old \cup new

\* sendBuffers() for a connection whose queues, capacity and state have become
\* snd, unack, cap and st: the congestion window may end it only while a packet
\* is outstanding, and only one is allowed before the first ack.
SendBuffers(snd, unack, cap, st, rest, resent) ==
    \E k \in 0..Len(snd) :
        /\ k <= cap
        /\ ~st => k + Cardinality(unack) <= 1 \/ k = 0
        /\ k = 0 => snd = <<>> \/ cap = 0 \/ unack # {}
        /\ sndQueue' = SubSeq(snd, k + 1, Len(snd))
        /\ unackQueue' = unack \union {snd[i] : i \in 1..k}
        /\ capacity' = cap - k
        /\ Transmit(rest, resent \cup {Data(snd[i]) : i \in 1..k})

\* SendChunkUDPIFC() with a full buffer, or SendEosUDPIFC() with the last one:
\* the packet is numbered and queued, and what may be sent is sent.
SendPacket ==
    /\ pc = "run"
    /\ sndSeq' = sndSeq + 1
    /\ SendBuffers(Append(sndQueue, sndSeq), unackQueue, capacity, started, net, {})
    /\ pc' = IF IsEos(sndSeq) THEN "eos" ELSE "wait"
    /\ UNCHANGED <<consumedSeq, receivedAckSeq, started, stopRequested,
                   receiver>>

\* snd_buffer_pool.maxCount
PoolSize == Conns * SndQueueDepth + (IF SndQueueDepth = 1 THEN 1 ELSE 0)

\* The buffers this connection can have: a share of its own with capacity based
\* flow control, with loss based flow control what the others leave of the pool.
MaxSndBuffers == IF LossFC THEN PoolSize ELSE SndQueueDepth

\* What the others leave of it in the end: each keeps its curBuff.
SndBuffersLeft == IF LossFC THEN PoolSize - (Conns - 1) ELSE SndQueueDepth

SndBuffers == Len(sndQueue) + Cardinality(unackQueue)

\* Mutant: one buffer too many.
GetSndBufferOneMore ==
    /\ pc = "wait"
    /\ SndBuffers <= MaxSndBuffers
    /\ ~stopRequested
    /\ pc' = "run"
    /\ UNCHANGED <<net, sndSeq, sndQueue, unackQueue, capacity, consumedSeq,
                   receivedAckSeq, started, stopRequested, receiver>>

\* getSndBuffer() has a buffer for SendChunkUDPIFC().
GetSndBuffer ==
    /\ pc = "wait"
    /\ SndBuffers < MaxSndBuffers
    /\ ~stopRequested
    /\ pc' = "run"
    /\ UNCHANGED <<net, sndSeq, sndQueue, unackQueue, capacity, consumedSeq,
                   receivedAckSeq, started, stopRequested, receiver>>

\* Another connection is being sent on.
ElsewhereBusy == pc = "run" /\ Conns > 1

\* handleStopMsgs(), once SendChunkUDPIFC() has a buffer for this or for another
\* connection: the buffers queued are returned, the EOS just put there among
\* them.
HandleStopMsgs ==
    /\ (pc = "wait" /\ SndBuffers < MaxSndBuffers) \/ ElsewhereBusy
    /\ stopRequested
    /\ pc' = "closed"
    /\ sndQueue' = <<>>
    /\ unackQueue' = {}
    /\ stopRequested' = FALSE
    /\ UNCHANGED <<net, sndSeq, capacity, consumedSeq, receivedAckSeq,
                   started, receiver>>

\* SendEosUDPIFC() returns when everything is acknowledged.
EosSent ==
    /\ pc = "eos"
    /\ unackQueue = {} /\ sndQueue = <<>>
    /\ pc' = "closed"
    /\ UNCHANGED <<net, sndSeq, sndQueue, unackQueue, capacity, consumedSeq,
                   receivedAckSeq, started, stopRequested, receiver>>

\* handleAckedPacket() for each packet of acked: it leaves the unack queue, and
\* moves receivedAckSeq if it was the first there.
HandleAckedPackets(acked) ==
    LET heads == {s \in acked : \A u \in unackQueue : u < s => u \in acked}
    IN  /\ receivedAckSeq' = IF heads = {} THEN receivedAckSeq ELSE Max(heads)
        /\ started' = (started \/ 1 \in acked)

\* What handleAcks() does after a message: packets have left the unack queue and
\* the capacity has become cap.  If either changed more is sent; it may be sent
\* otherwise too, when shouldSendBuffers is left from an earlier message.
AfterAck(acked, cap, rest, resent) ==
    /\ HandleAckedPackets(acked)
    /\ \/ SendBuffers(sndQueue, unackQueue \ acked,
                      cap, started', rest, resent)
       \/ /\ acked = {} /\ cap = capacity
          /\ Transmit(rest, resent)
          /\ UNCHANGED <<sndQueue, unackQueue, capacity>>

\* Mutant: consumedSeq is not moved, and the same capacity counts twice.
HandleAckCountsAgain(m, rest) ==
    /\ m.type = "ack"
    /\ stopRequested' = (stopRequested \/ (m.stop /\ m.seq >= receivedAckSeq))
    /\ AfterAck({s \in unackQueue : s <= m.seq /\ m.seq > receivedAckSeq},
                capacity + Larger(0, m.extraSeq - consumedSeq), rest, {})
    /\ UNCHANGED consumedSeq

\* handleAcks() of an ack: CAPACITY, STOP and ACK in this order; an old number
\* counts for its capacity only, the last one also for STOP.
HandleAck(m, rest) ==
    LET cap == capacity + Larger(0, m.extraSeq - consumedSeq)
    IN  /\ m.type = "ack"
        /\ consumedSeq' = Larger(consumedSeq, m.extraSeq)
        /\ stopRequested' = (stopRequested \/ (m.stop /\ m.seq >= receivedAckSeq))
        /\ AfterAck({s \in unackQueue : s <= m.seq /\ m.seq > receivedAckSeq},
                    cap, rest, {})

\* handleAckForDuplicatePkt()
HandleDupAck(m, rest) ==
    /\ m.type = "dup"
    /\ AfterAck({s \in unackQueue : s <= m.extraSeq \/ s = m.seq}, capacity, rest, {})
    /\ UNCHANGED <<consumedSeq, stopRequested>>

\* Mutant: everything before the packet that came too early counts as arrived.
HandleDisorderAckAll(m, rest) ==
    /\ m.type = "disorder"
    /\ AfterAck({s \in unackQueue : s <= m.seq}, capacity, rest, {})
    /\ UNCHANGED <<consumedSeq, stopRequested>>

\* handleAckForDisorderPkt(): the lost packets are resent; a packet before a
\* lost one that is not lost itself has arrived, and so has the one that
\* triggered the message, which the loop only gets to with a lost one left.
\* Only the third message in a row with the same extraSeq counts; since other
\* connections share that counter, any may be ignored.
HandleDisorderAck(m, rest) ==
    LET U == unackQueue
        before == {s \in U : s < m.seq}
        last == Max(before \cup {0})
        acked == {s \in before : s \notin m.lost /\ \E l \in m.lost : l > s}
                    \cup {s \in U : s = m.seq /\ \E l \in m.lost : l > last}
    IN  /\ m.type = "disorder"
        /\ \/ AfterAck(acked, capacity, rest, {Data(s) : s \in before \cap m.lost})
           \/ AfterAck({}, capacity, rest, {})
        /\ UNCHANGED <<consumedSeq, stopRequested>>

\* The sender polls its socket only while it waits, here or elsewhere.
HandleAcks(m, rest) ==
    /\ pc \in {"wait", "eos"} \/ ElsewhereBusy
    /\ \/ HandleAck(m, rest)
       \/ HandleDupAck(m, rest)
       \/ HandleDisorderAck(m, rest)
    /\ UNCHANGED <<pc, sndSeq, receiver>>

\* checkExpiration() and checkExpirationCapacityFC(): a packet is resent, by the
\* latter only while the sender waits here.
Resend(s) ==
    /\ pc \in {"wait", "eos"} \/ (LossFC /\ ElsewhereBusy)
    /\ s \in unackQueue
    /\ Transmit(net, {Data(s)})
    /\ UNCHANGED <<sender, receiver>>

\* checkDeadlock(): nothing is outstanding and nothing may be sent.
CheckDeadlock ==
    /\ pc \in {"wait", "eos"}
    /\ unackQueue = {} /\ capacity = 0 /\ sndQueue # <<>>
    /\ Transmit(net, {Query(sndSeq - 1)})
    /\ UNCHANGED <<sender, receiver>>

-----------------------------------------------------------------------------
(* The receiver.                                                            *)

\* A data packet that belongs to the window is stored.  At the tail of the
\* queue it makes the packets after it available too, up to the first gap or
\* the end of the ring; elsewhere the sender is told which packets before it
\* are missing.
Advance(c, q) ==
    Min({n \in 0..(QueueDepth - c.size) :
            n = QueueDepth - c.size \/ q[(c.tail + n) % QueueDepth] = NoPacket})

\* Mutant: the tail moves by one only, past the packet just stored.
StorePacketOne(c, s) ==
    LET q == [c.q EXCEPT ![PosOf(s)] = s]
    IN  IF PosOf(s) = c.tail
        THEN [c EXCEPT !.q = q, !.size = @ + 1, !.tail = (@ + 1) % QueueDepth,
                       !.seq = @ + 1, !.eos = @ \/ IsEos(s)]
        ELSE [c EXCEPT !.q = q]

StorePacket(c, s) ==
    LET q == [c.q EXCEPT ![PosOf(s)] = s]
        n == Advance(c, q)
    IN  IF PosOf(s) = c.tail
        THEN [c EXCEPT !.q = q, !.size = @ + n, !.tail = (@ + n) % QueueDepth,
                       !.seq = @ + n,
                       !.eos = @ \/ IsEos(q[(c.tail + n + QueueDepth - 1) % QueueDepth])]
        ELSE [c EXCEPT !.q = q]

\* handleDataPacket(), with handleDisorderPacket().  Its branch for a packet
\* outside the window only drops the packet (see NoOverrun).
HandleDataPacket(c0, s, rest) ==
    LET c == [c0 EXCEPT !.peer = @ \/ s <= QueueDepth]
        stored == StorePacket(c, s)
    IN
    \/ /\ c.stop /\ c.active
       /\ conn' = [c EXCEPT !.eos = @ \/ IsEos(s), !.seq = Larger(@, s),
                            !.active = ~IsEos(s)]
       /\ Transmit(rest, {Ack(s, s, TRUE)})
       /\ UNCHANGED reached
    \/ /\ ~(c.stop /\ c.active)
       /\ s < c.seq
       /\ conn' = c
       /\ Transmit(rest, {Ack(c.seq - 1, c.extraSeq, c.stop)})
       /\ UNCHANGED reached
    \/ /\ ~c.active
       /\ s >= c.seq
       /\ conn' = [c EXCEPT !.seq = s]
       /\ Transmit(rest, {Ack(s, s, TRUE)})
       /\ UNCHANGED reached
    \/ /\ ~c.stop /\ c.active
       /\ s >= c.seq
       /\ s - (c.seq - c.size) < QueueDepth
       /\ c.q[PosOf(s)] = NoPacket
       /\ conn' = stored
       /\ Transmit(rest, IF PosOf(s) = c.tail
                      THEN {Ack(stored.seq - 1, c.extraSeq, FALSE)}
                      ELSE {DisorderAck(s, {t \in c.seq..(s - 1) : c.q[PosOf(t)] = NoPacket})})
       /\ reached' = (reached \/ (main = "wait" /\ PosOf(s) = c.head))
    \/ /\ ~c.stop /\ c.active
       /\ s >= c.seq
       /\ s - (c.seq - c.size) < QueueDepth
       /\ c.q[PosOf(s)] # NoPacket
       /\ conn' = c
       /\ Transmit(rest, {DupAck(s, c.seq - 1)})
       /\ UNCHANGED reached

\* handleDataPacket() of a status query message.
HandleQuery(m, rest) ==
    /\ m.type = "query"
    /\ Transmit(rest, {Ack(conn.seq - 1, IF conn.stop THEN conn.seq - 1 ELSE conn.extraSeq,
                        conn.stop)})
    /\ UNCHANGED <<conn, reached>>

\* handleMismatch() of a packet that comes before the set-up: cacheFuturePacket()
\* keeps it when it is one of the first QueueDepth.
CacheFuturePacket(m, rest) ==
    /\ main = "setup"
    /\ m.type = "data"
    /\ cache' = IF m.seq <= QueueDepth THEN cache \cup {m.seq} ELSE cache
    /\ net' = rest
    /\ UNCHANGED <<conn, reached>>

\* Mutant: packets of a statement that is over are dropped.
IgnoreThePast(m, rest) ==
    /\ main = "torn"
    /\ m.type \in {"data", "query"}
    /\ net' = rest
    /\ UNCHANGED <<cache, conn, reached>>

\* handleMismatch() of a packet that comes after the teardown is acknowledged.
AckThePast(m, rest) ==
    /\ main = "torn"
    /\ m.type \in {"data", "query"}
    /\ Transmit(rest, {Ack(m.seq, m.seq, TRUE)})
    /\ UNCHANGED <<cache, conn, reached>>

\* rxThreadFunc(): a packet arrives at the receiver.
RxThread(m, rest) ==
    /\ \/ CacheFuturePacket(m, rest)
       \/ AckThePast(m, rest)
       \/ /\ main \notin {"setup", "cached", "torn"}
          /\ \/ m.type = "data" /\ HandleDataPacket(conn, m.seq, rest)
             \/ HandleQuery(m, rest)
          /\ UNCHANGED cache
    /\ UNCHANGED <<sender, main, delivered>>

\* cleanupStartupCache() by the teardown of the statement before.
CleanupStartupCache ==
    /\ main = "setup" /\ cache # {}
    /\ cache' = {}
    /\ UNCHANGED <<net, sender, main, conn, reached, delivered>>

\* SetupUDPIFCInterconnect_Internal(), which goes on to handleCachedPackets()
\* under the same lock.
Setup ==
    /\ main = "setup"
    /\ main' = "cached"
    /\ UNCHANGED <<net, sender, conn, cache, reached, delivered>>

HandleCachedPackets ==
    /\ main = "cached"
    /\ \/ /\ cache # {}
          /\ HandleDataPacket(conn, Min(cache), net)
          /\ cache' = cache \ {Min(cache)}
          /\ UNCHANGED main
       \/ /\ cache = {}
          /\ main' = "idle"
          /\ UNCHANGED <<net, conn, cache, reached>>
    /\ UNCHANGED <<sender, delivered>>

\* RecvTupleChunkFromAnyUDPIFC(): a packet is there, or the main thread waits
\* until the rx thread reports one.
ReadHead ==
    /\ main' = "read"
    /\ delivered' = Append(delivered, conn.q[conn.head])
    /\ reached' = FALSE
    /\ UNCHANGED <<net, sender, conn, cache>>

RecvTupleChunk ==
    /\ main = "idle"
    /\ conn.size > 0
    /\ ReadHead

\* Mutant: the queue was looked at before the lock was taken.
WaitForChunkUnseen ==
    /\ main = "idle"
    /\ conn.active
    /\ main' = "wait"
    /\ reached' = FALSE
    /\ UNCHANGED <<net, sender, conn, cache, delivered>>

WaitForChunk ==
    /\ main = "idle"
    /\ conn.size = 0 /\ conn.active
    /\ main' = "wait"
    /\ reached' = FALSE
    /\ UNCHANGED <<net, sender, conn, cache, delivered>>

WakeUp ==
    /\ main = "wait" /\ reached
    /\ ReadHead

\* DeregisterReadInterest() when the chunk was the end of the stream.
Deregister ==
    /\ main = "read"
    /\ IsEos(conn.q[conn.head])
    /\ main' = "eos"
    /\ conn' = [conn EXCEPT !.active = FALSE]
    /\ UNCHANGED <<net, sender, cache, reached, delivered>>

\* putRxBufferAndSendAck()
PutRxBuffer(c) ==
    [c EXCEPT !.q[c.head] = NoPacket, !.head = (@ + 1) % QueueDepth,
              !.size = @ - 1, !.extraSeq = c.q[c.head]]
PutRxBufferAcks(c) ==
    IF c.q[c.head] % 2 = 0 \/ QueueDepth = 1
    THEN {Ack(c.seq - 1, c.q[c.head], c.stop)} ELSE {}

\* MlPutRxBufferIFC()
MlPutRxBuffer ==
    /\ main = "eos" \/ (main = "read" /\ ~IsEos(conn.q[conn.head]))
    /\ main' = "idle"
    /\ conn' = PutRxBuffer(conn)
    /\ Transmit(net, PutRxBufferAcks(conn))
    /\ UNCHANGED <<sender, cache, reached, delivered>>

\* putRxBufferAndSendAck() until the queue is empty.
Queued(c) == {c.q[(c.head + i) % QueueDepth] : i \in 0..(c.size - 1)}
DrainQueue(c) ==
    [c EXCEPT !.q = [i \in Pos |-> IF @[i] \in Queued(c) THEN NoPacket ELSE @[i]],
              !.head = c.tail, !.size = 0,
              !.extraSeq = IF c.size = 0 THEN @
                           ELSE c.q[(c.tail + QueueDepth - 1) % QueueDepth]]
DrainAcks(c) ==
    {Ack(c.seq - 1, s, c.stop) : s \in {u \in Queued(c) : u % 2 = 0 \/ QueueDepth = 1}}

\* doSendStopMessageUDPIFC(): the executor needs no more tuples.
SendStopMessage ==
    /\ main = "idle" /\ conn.active
    /\ main' = "stopped"
    /\ \/ /\ conn.eos
          /\ conn' = [DrainQueue(conn) EXCEPT !.active = FALSE]
          /\ Transmit(net, DrainAcks(conn))
       \/ /\ ~conn.eos
          /\ conn' = [conn EXCEPT !.stop = TRUE]
          /\ Transmit(net, IF conn.peer THEN {Ack(conn.seq - 1, conn.seq - 1, TRUE)} ELSE {})
    /\ UNCHANGED <<sender, cache, reached, delivered>>

\* TeardownUDPIFCInterconnect(), at the end of the statement or, on an error,
\* wherever the main thread is.
Teardown ==
    /\ main \in {"idle", "wait", "read", "eos", "stopped"}
    /\ main' = "torn"
    /\ Transmit(net, DrainAcks(conn))
    /\ conn' = NewConn
    /\ cache' = {}
    /\ reached' = FALSE
    /\ UNCHANGED <<sender, delivered>>

-----------------------------------------------------------------------------
(* The network.                                                             *)

\* A packet arrives at its end; a copy of it may be left.
AtReceiver(m) == \E rest \in {net, net \ {m}} : RxThread(m, rest)
AtSender(m) == \E rest \in {net, net \ {m}} : HandleAcks(m, rest)

Lose(m) ==
    /\ net' = net \ {m}
    /\ UNCHANGED <<sender, receiver>>

SenderSteps == SendPacket \/ GetSndBuffer \/ HandleStopMsgs \/ EosSent

ReceiverSteps ==
    \/ Setup \/ HandleCachedPackets \/ RecvTupleChunk \/ WaitForChunk \/ WakeUp
    \/ Deregister \/ MlPutRxBuffer

\* The statement is over at both ends.
Terminated ==
    /\ pc = "closed" /\ main = "torn"
    /\ UNCHANGED vars

Next ==
    \/ SenderSteps \/ CheckDeadlock \/ \E s \in Seq1 : Resend(s)
    \/ ReceiverSteps \/ SendStopMessage \/ Teardown \/ CleanupStartupCache
    \/ \E m \in net : AtReceiver(m) \/ AtSender(m) \/ Lose(m)
    \/ Terminated

\* The processes keep running, and the receivers of the other connections take
\* what they are sent, so that the buffers held there come back; the receiver tears down once it has read the end
\* of the stream or asked to stop, and timers keep expiring.  The network may lose
\* for ever but not everything: a packet put on it again and again arrives again
\* and again.  handleAcks() reads all there is in the socket, so an ack that tells
\* the sender something new is not passed over for ever.
Fairness ==
    /\ WF_vars((pc = "wait" => SndBuffers < SndBuffersLeft) /\ SenderSteps)
    /\ WF_vars(ReceiverSteps)
    /\ WF_vars((main = "stopped" \/ (main = "idle" /\ ~conn.active)) /\ Teardown)
    /\ SF_vars(CheckDeadlock)
    /\ SF_vars(unackQueue # {} /\ Resend(Min(unackQueue)))
    /\ \A s \in Seq1 : SF_vars(Data(s) \in net /\ AtReceiver(Data(s)))
    /\ SF_vars(\E s \in Seq1 : Query(s) \in net /\ AtReceiver(Query(s)))
    /\ SF_vars(\E m \in net : AtSender(m) /\ sender' # sender)

Spec == Init /\ [][Next]_vars /\ Fairness

-----------------------------------------------------------------------------
(* Properties.                                                              *)

Message ==
    [type : {"data", "query"}, seq : Seq1]
        \cup [type : {"ack"}, seq : 0..Packets, extraSeq : 0..Packets, stop : BOOLEAN]
        \cup [type : {"dup"}, seq : Seq1, extraSeq : 0..Packets]
        \cup [type : {"disorder"}, seq : Seq1, lost : SUBSET Seq1]

\* Every variable has its type; the receiver's ring stays within its depth, and
\* the sender's queues within theirs with capacity based flow control (what
\* getSndBuffer() asserts), within the pool of all connections with loss based.
TypeOK ==
    /\ \A m \in net : m \in Message
    /\ started \in BOOLEAN /\ stopRequested \in BOOLEAN
    /\ reached \in BOOLEAN
    /\ pc \in {"run", "wait", "eos", "closed"}
    /\ sndSeq \in 1..(Packets + 1)
    /\ Range(sndQueue) \cup unackQueue \subseteq Seq1
    /\ SndBuffers <= MaxSndBuffers
    /\ capacity \in Nat
    /\ consumedSeq \in 0..Packets /\ receivedAckSeq \in 0..Packets
    /\ main \in {"setup", "cached", "idle", "wait", "read", "eos", "stopped", "torn"}
    /\ conn \in [seq : 1..(Packets + 1), extraSeq : 0..Packets, q : [Pos -> 0..Packets],
                 head : Pos, tail : Pos, size : 0..QueueDepth, eos : BOOLEAN,
                 stop : BOOLEAN, active : BOOLEAN, peer : BOOLEAN]
    /\ cache \subseteq 1..QueueDepth
    /\ Range(delivered) \subseteq Seq1

\* However packets are lost, copied and reordered, the executor gets them in the
\* order they were sent in, none twice and none left out (handleDataPacket, the
\* ring pkt_q).
InOrder == \A i \in DOMAIN delivered : delivered[i] = i

\* A packet whose buffer the sender has given back has arrived: it is in the
\* receiver's queue or was delivered.  So SendEosUDPIFC() returning means that
\* nothing is missing, unless the receiver had asked to stop or was torn down
\* (handleAcks, handleAckForDuplicatePkt, handleAckForDisorderPkt).
AckedIsHeld ==
    main \in {"stopped", "torn"} \/
    \A s \in 1..(sndSeq - 1) :
        \/ s \in Range(sndQueue) \cup unackQueue
        \/ s <= Len(delivered)
        \/ conn.q[PosOf(s)] = s

\* The sender never overruns the ring: no packet in flight can meet the branch
\* "received a packet when the queue is full" of handleDataPacket, which calls
\* that a bug (capacity, consumedSeq and extraSeq).
NoOverrun ==
    \A s \in {m.seq : m \in {d \in net : d.type = "data"}} :
        (main \notin {"setup", "torn"} /\ conn.active /\ ~conn.stop /\ s >= conn.seq)
            => conn.size < QueueDepth /\ s - (conn.seq - conn.size) < QueueDepth

\* A main thread that waits is told of the packet it waits for
\* (receiveChunksUDPIFC looks at reachRoute only, never at the queue).
NoLostWakeup == main = "wait" /\ conn.size > 0 => reached

\* Whatever is lost on the way the sender gets done, whether the receiver reads to
\* the end, stops early or is gone (resending, checkDeadlock, handleStopMsgs,
\* handleMismatch).
SenderFinishes == <>(pc = "closed")

\* And a receiver that neither stops nor fails gets the whole stream, though acks
\* for its capacity are lost and packets come in the wrong order (handleDataPacket,
\* checkDeadlock).
AllDelivered == <>(Len(delivered) = Packets \/ main \in {"stopped", "torn"})

=============================================================================
