------------------------------- MODULE IcUdp -------------------------------
(***************************************************************************)
(* One connection of the UDP interconnect: the sending slice, the          *)
(* receiving slice (its main thread and its receive thread, which share    *)
(* the packet queue under one lock) and the network between them, which    *)
(* loses and reorders.  Packets 1 .. Last are sent, the last with EOS.     *)
(* Flow control is by loss (the default): the congestion window is a free  *)
(* choice, except that an idle connection may always send one packet.      *)
(***************************************************************************)
EXTENDS Integers, Sequences, FiniteSets, FiniteSetsExt

CONSTANTS
    Last,       \* the packet with the EOS flag
    Cap,        \* Gp_interconnect_queue_depth
    SndBufs,    \* Gp_interconnect_snd_queue_depth
    StaleSeq,   \* what earlier connections may leave in the statics of
                \* handleAckForDisorderPkt, 0 when nothing
    MaxSeqs,    \* MAX_SEQS_IN_DISORDER_ACK
    MaxAcks,    \* bound: a packet is delivered while fewer acks are in flight
    MaxLoss     \* bound: messages lost

ASSUME IcAssumption ==
    /\ {Last, Cap, SndBufs, MaxSeqs, MaxAcks, MaxLoss} \subseteq Nat \ {0}
    /\ StaleSeq \subseteq 0 .. Last

Packet == 1 .. Last
NULL   == 0

Conn ==
    [seq : 1 .. Last + 1, extra : 0 .. Last, slot : [0 .. Cap - 1 -> {NULL} \cup Packet],
     head : 0 .. Cap - 1, size : 0 .. Cap, eos : BOOLEAN, stop : BOOLEAN,
     active : BOOLEAN, peer : BOOLEAN]
AckMsg ==
    [kind : {"ack", "dup", "disorder"}, seq : 0 .. Last, extra : 0 .. Last,
     stop : BOOLEAN, lost : SUBSET Packet]

Ack(seq, extra, stop) ==
    [kind |-> "ack", seq |-> seq, extra |-> extra, stop |-> stop, lost |-> {}]
DuplicateAck(seq, extra) ==
    [kind |-> "dup", seq |-> seq, extra |-> extra, stop |-> FALSE, lost |-> {}]
DisorderAck(seq, extra, lost) ==
    [kind |-> "disorder", seq |-> seq, extra |-> extra, stop |-> FALSE, lost |-> lost]

VARIABLES
    phase,      \* sender: filling a buffer, waiting for one, waiting after EOS
    next,       \* sender's conn_info.seq; sndQueue is sentSeq + 1 .. next - 1
    sentSeq,
    unack,      \* unackQueue
    capacity, consumedSeq, receivedAckSeq,
    stopReq,    \* sender's stopRequested
    disorder,   \* lastSeq and times of handleAckForDisorderPkt
    life,       \* receiver: before setup, connected, torn down
    cached,     \* startup cache
    rx,         \* receiver's connection
    main,       \* receiver's main thread
    data, query, acks,   \* in flight
    losses

ctl  == <<consumedSeq, receivedAckSeq, stopReq, disorder>>
snd  == <<phase, next, sentSeq, unack, capacity, ctl>>
rcv  == <<life, cached, rx, main>>
net  == <<data, query, acks, losses>>
vars == <<snd, rcv, net>>

TypeOK ==
    /\ phase \in {"fill", "buf", "eos", "done"}
    /\ next \in 1 .. Last + 1 /\ sentSeq \in 0 .. next - 1
    /\ unack \subseteq 1 .. sentSeq
    /\ capacity \in 0 .. Cap + Last
    /\ consumedSeq \in 0 .. next - 1 /\ receivedAckSeq \in 0 .. sentSeq
    /\ stopReq \in BOOLEAN
    /\ disorder \in [lastSeq : 0 .. Last, times : 0 .. 3]
    /\ life \in {"start", "up", "torn"}
    /\ cached \subseteq 1 .. Cap
    /\ rx \in Conn
    /\ main \in {"idle", "wait", "ready", "put"}
    /\ data \subseteq Packet /\ query \in 0 .. Last
    /\ acks \subseteq AckMsg
    /\ losses \in 0 .. MaxLoss

NewConn ==
    [seq |-> 1, extra |-> 0, slot |-> [p \in 0 .. Cap - 1 |-> NULL], head |-> 0,
     size |-> 0, eos |-> FALSE, stop |-> FALSE, active |-> TRUE, peer |-> FALSE]

Init ==
    /\ phase = "fill" /\ next = 1 /\ sentSeq = 0 /\ unack = {}
    /\ capacity = Cap /\ consumedSeq = 0 /\ receivedAckSeq = 0 /\ stopReq = FALSE
    /\ disorder \in {[lastSeq |-> l, times |-> IF l = 0 THEN 0 ELSE 1] : l \in StaleSeq}
    /\ life = "start" /\ cached = {} /\ main = "idle" /\ rx = NewConn
    /\ data = {} /\ query = 0 /\ acks = {} /\ losses = 0
----------------------------------------------------------------------------
(* The sender.                                                             *)

sndQueue == sentSeq + 1 .. next - 1

(* Packet 1 sets the connection up (mcsSetupOutgoingConnection until it is *)
(* acknowledged): it travels alone.                                        *)
Started(u) == sentSeq >= 1 /\ 1 \notin u

(* sendBuffers, when n packets were prepared, u are outstanding and cap is *)
(* the capacity: how many of the queue may go out.                         *)
SendCount(n, u, cap) ==
    LET queued == Min({cap, n - 1 - sentSeq})
        most   == IF Started(u) THEN queued ELSE Min({queued, 1 - Cardinality(u)})
    IN  {k \in 0 .. most : u = {} /\ queued > 0 => k > 0}

sendBuffers(n, u, cap, resent) ==
    \E k \in SendCount(n, u, cap) :
        /\ sentSeq' = sentSeq + k
        /\ unack' = u \cup (sentSeq + 1 .. sentSeq + k)
        /\ capacity' = cap - k
        /\ data' = data \cup resent \cup (sentSeq + 1 .. sentSeq + k)

(* The sender is through, its connection freed: nobody reads acks.         *)
Leave ==
    /\ phase' = "done"
    /\ sentSeq' = next - 1 /\ unack' = {} /\ acks' = {}
    /\ capacity' = Cap /\ consumedSeq' = 0 /\ receivedAckSeq' = 0 /\ stopReq' = FALSE
    /\ disorder' = [lastSeq |-> 0, times |-> 0]

SendChunk ==
    /\ phase = "fill" /\ next < Last
    /\ next' = next + 1
    /\ sendBuffers(next + 1, unack, capacity, {})
    /\ phase' = "buf"
    /\ UNCHANGED <<ctl, rcv, query, acks, losses>>

(* getSndBuffer succeeds.  A stop that came in while waiting is served now *)
(* (handleStopMsgs): the queues are dropped and no EOS packet is sent.     *)
GetBuffer ==
    /\ phase = "buf"
    /\ Cardinality(sndQueue) + Cardinality(unack) < SndBufs
    /\ IF stopReq
       THEN Leave
       ELSE phase' = "fill" /\ UNCHANGED <<sentSeq, unack, capacity, ctl, acks>>
    /\ UNCHANGED <<next, rcv, data, query, losses>>

SendEOS ==
    /\ phase = "fill" /\ next = Last
    /\ next' = next + 1
    /\ sendBuffers(next + 1, unack, capacity, {})
    /\ phase' = "eos"
    /\ UNCHANGED <<ctl, rcv, query, acks, losses>>

SendEOSDone ==
    /\ phase = "eos" /\ unack = {} /\ sndQueue = {}
    /\ Leave
    /\ UNCHANGED <<next, rcv, data, query, losses>>

Polling == phase \in {"buf", "eos"}

(* checkExpiration                                                         *)
Expire(s) ==
    /\ Polling /\ s \in unack /\ s \notin data
    /\ data' = data \cup {s}
    /\ UNCHANGED <<snd, rcv, query, acks, losses>>

(* Fault: the query is only sent while packets are outstanding.            *)
StatusQueryOutstanding ==
    /\ Polling /\ unack # {} /\ capacity = 0 /\ sndQueue # {}
    /\ query = 0
    /\ query' = next - 1
    /\ UNCHANGED <<snd, rcv, data, acks, losses>>

(* checkDeadlock                                                           *)
StatusQuery ==
    /\ Polling /\ unack = {} /\ capacity = 0 /\ sndQueue # {}
    /\ query = 0
    /\ query' = next - 1
    /\ UNCHANGED <<snd, rcv, data, acks, losses>>

(* Only a packet freed at the head of the queue moves receivedAckSeq.      *)
AckedAfter(freed) ==
    Max({receivedAckSeq} \cup {s \in freed : \A u \in unack : u < s => u \in freed})

(* handleAckForDuplicatePkt                                                *)
FreedByDuplicate(a) ==
    IF a.seq <= a.extra THEN {} ELSE {s \in unack : s <= a.extra \/ s = a.seq}

(* handleAckForDisorderPkt: the list of lost packets is used up as the     *)
(* unack queue is walked, and the walk ends with it.  Reports count only   *)
(* from the third with the same extraSeq on; lastSeq and times are static, *)
(* shared by all connections and queries of the process.                   *)
DisorderActs(a) == a.extra = disorder.lastSeq /\ disorder.times = 1

(* Fault: the report of a gap frees everything up to its packet.           *)
FreedByDisorderAll(a) == {s \in unack : s <= a.seq}

FreedByDisorder(a) ==
    {s \in unack \ a.lost :
        \/ \E l \in a.lost : s < l
        \/ s = a.seq /\ \A u \in unack : u < s => u < Max(a.lost)}

HandleAck(a) ==
    /\ Polling /\ a \in acks
    /\ acks' = acks \ {a}
    /\ LET raise == a.kind = "ack" /\ a.extra > consumedSeq
           cap   == IF raise THEN capacity + a.extra - consumedSeq ELSE capacity
           acts  == a.kind = "disorder" /\ DisorderActs(a)
           freed == CASE a.kind = "ack" -> IF a.seq > receivedAckSeq
                                           THEN {s \in unack : s <= a.seq} ELSE {}
                      [] a.kind = "dup" -> FreedByDuplicate(a)
                      [] a.kind = "disorder" -> IF acts THEN FreedByDisorder(a) ELSE {}
       IN  /\ consumedSeq' = IF raise THEN a.extra ELSE consumedSeq
           /\ receivedAckSeq' = AckedAfter(freed)
           /\ stopReq' = (stopReq \/ (a.kind = "ack" /\ a.stop /\ a.seq >= receivedAckSeq))
           /\ disorder' =
                 IF a.kind # "disorder" THEN disorder
                 ELSE IF a.extra # disorder.lastSeq THEN [lastSeq |-> a.extra, times |-> 0]
                 ELSE [disorder EXCEPT !.times = Min({@ + 1, 3})]
           /\ sendBuffers(next, unack \ freed, cap, IF acts THEN a.lost \cap unack ELSE {})
    /\ UNCHANGED <<phase, next, rcv, query, losses>>
----------------------------------------------------------------------------
(* The receiver's connection.                                              *)

PutSlot(r, s) == [r EXCEPT !.slot[(s - 1) % Cap] = s]
QTail(r) == (r.head + r.size) % Cap
SlotAfter(r, i) == r.slot[(QTail(r) + i) % Cap]

(* The packets from the tail on that have no gap before them.              *)
Ready(r) == Max({n \in 0 .. Cap - r.size : \A i \in 0 .. n - 1 : SlotAfter(r, i) # NULL})

MoveTail(r) ==
    LET n == Ready(r)
    IN  [r EXCEPT !.size = @ + n, !.seq = @ + n,
                  !.eos = @ \/ SlotAfter(r, n - 1) = Last]

(* handleDisorderPacket: the first MaxSeqs of the packets that are missing *)
(* before s.                                                               *)
Gaps(r, s) == {l \in r.seq .. s - 1 : r.slot[(l - 1) % Cap] = NULL}
Lost(r, s) == {l \in Gaps(r, s) : Cardinality({k \in Gaps(r, s) : k < l}) < MaxSeqs}

(* Packet s does not fit: handleDataPacket logs this as a bug.             *)
Overrun(r, s) == r.size = Cap \/ s - (r.seq - r.size) >= Cap

(* Fault: what is received, not what is consumed, is given back.           *)
DataAckReceived(r) == Ack(r.seq - 1, r.seq - 1, r.stop)

(* All before seq has been received, all up to extraSeq consumed.          *)
DataAck(r) == Ack(r.seq - 1, r.extra, r.stop)

(* handleDataPacket: the connection after packet s, the acks, and whether  *)
(* the packet at the head of the queue has arrived.  No packet in flight   *)
(* has the STOP flag: it is set on a sender's connection that handles the  *)
(* stop before it prepares another packet, or has prepared its last.       *)
handleDataPacket(c, s) ==
    LET r == [c EXCEPT !.peer = @ \/ s <= Cap]
        Res(x, as, w) == [rx |-> x, acks |-> as, wake |-> w]
        past == [r EXCEPT !.seq = Max({@, s})]
        atHead == (s - 1) % Cap = r.head
        stored == PutSlot(r, s)
    IN  CASE r.stop /\ r.active ->
               Res([past EXCEPT !.eos = @ \/ s = Last, !.active = s # Last], {Ack(s, s, TRUE)}, FALSE)
          [] ~(r.stop /\ r.active) /\ s < r.seq ->
               Res(r, {DataAck(r)}, FALSE)
          [] ~r.active /\ s >= r.seq ->
               Res(past, {Ack(s, s, TRUE)}, FALSE)
          [] OTHER ->
               IF Overrun(r, s) THEN Res(r, {}, FALSE)
               ELSE IF r.slot[(s - 1) % Cap] # NULL THEN Res(r, {DuplicateAck(s, r.seq - 1)}, FALSE)
               ELSE IF (s - 1) % Cap = QTail(r)
                    THEN LET m == MoveTail(stored)
                         IN  Res(m, {DataAck(m)}, atHead)
                    ELSE Res(stored, {DisorderAck(s, r.seq - 1, Lost(r, s))}, atHead)

(* putRxBufferAndSendAck: every second packet is acknowledged again.       *)
PutAcks(r, s) == IF s % 2 = 0 \/ Cap = 1 THEN {Ack(r.seq - 1, s, r.stop)} ELSE {}

(* Fault: the slot is not cleared.                                         *)
PutRxKept(r) ==
    [r EXCEPT !.head = (@ + 1) % Cap, !.size = @ - 1, !.extra = r.slot[r.head]]

PutRx(r) ==
    [r EXCEPT !.slot[r.head] = NULL, !.head = (@ + 1) % Cap, !.size = @ - 1,
              !.extra = r.slot[r.head]]

(* The queue put back packet by packet.                                    *)
Queued(r)   == {r.slot[(r.head + i) % Cap] : i \in 0 .. r.size - 1}
DrainAcks(r) == UNION {PutAcks(r, s) : s \in Queued(r)}
Drain(r) ==
    [r EXCEPT !.slot = [p \in 0 .. Cap - 1 |-> NULL], !.head = QTail(r), !.size = 0,
              !.extra = Max({@} \cup Queued(r))]

(* Nobody reads an ack once the sender has left the interconnect.         *)
ToSender(as) == acks' = IF phase = "done" THEN acks ELSE acks \cup as

(* A packet for a connection that does not exist yet goes to the startup   *)
(* cache, without an ack.                                                  *)
cacheFuturePacket(s) == cached' = cached \cup ({s} \cap 1 .. Cap)

(* "ACK the past, NAK the future": a packet or a status query for a        *)
(* connection torn down is acknowledged, with STOP.                        *)
handleMismatch(s) == ToSender({Ack(s, s, TRUE)})

(* rxThreadFunc                                                            *)
Receive(s) ==
    /\ s \in data /\ Cardinality(acks) < MaxAcks
    /\ data' = data \ {s}
    /\ \/ /\ life = "start"
          /\ cacheFuturePacket(s)
          /\ UNCHANGED <<rx, main, acks>>
       \/ /\ life = "up"
          /\ LET h == handleDataPacket(rx, s)
             IN  /\ rx' = h.rx
                 /\ ToSender(h.acks)
                 /\ main' = IF main = "wait" /\ h.wake THEN "ready" ELSE main
          /\ UNCHANGED cached
       \/ /\ life = "torn"
          /\ handleMismatch(s)
          /\ UNCHANGED <<rx, main, cached>>
    /\ UNCHANGED <<snd, life, query, losses>>

ReceiveQuery ==
    /\ query # 0 /\ Cardinality(acks) < MaxAcks
    /\ query' = 0
    /\ IF life = "torn"
       THEN handleMismatch(query)
       ELSE ToSender({Ack(rx.seq - 1, IF rx.stop THEN rx.seq - 1 ELSE rx.extra, rx.stop)})
    /\ UNCHANGED <<snd, rcv, data, losses>>

(* SetupUDPIFCInterconnect_Internal and handleCachedPackets, one critical  *)
(* section.  Only packet 1 can be cached: it travels alone.                *)
Setup ==
    /\ life = "start"
    /\ life' = "up" /\ cached' = {}
    /\ LET h == handleDataPacket(rx, 1)
       IN  IF 1 \in cached THEN rx' = h.rx /\ ToSender(h.acks) ELSE UNCHANGED <<rx, acks>>
    /\ UNCHANGED <<snd, main, data, query, losses>>

(* Fault: wait without a look at the queue.                                *)
RecvTupleChunkBlind ==
    /\ life = "up" /\ main = "idle" /\ rx.active /\ ~rx.stop
    /\ main' = "wait"
    /\ UNCHANGED <<snd, life, cached, rx, net>>

(* RecvTupleChunkFromUDPIFC: read the head of the queue or wait for it.    *)
RecvTupleChunk ==
    /\ life = "up" /\ main = "idle" /\ rx.active /\ ~rx.stop
    /\ main' = IF rx.slot[rx.head] # NULL THEN "ready" ELSE "wait"
    /\ UNCHANGED <<snd, life, cached, rx, net>>

(* processTupleChunk; end of stream ends the interest in the connection.   *)
ProcessChunks ==
    /\ life = "up" /\ main = "ready"
    /\ rx' = [rx EXCEPT !.active = @ /\ rx.slot[rx.head] # Last]
    /\ main' = "put"
    /\ UNCHANGED <<snd, life, cached, net>>

(* MlPutRxBufferIFC                                                        *)
PutRxBuffer ==
    /\ life = "up" /\ main = "put"
    /\ rx' = PutRx(rx)
    /\ ToSender(PutAcks(rx, rx.slot[rx.head]))
    /\ main' = "idle"
    /\ UNCHANGED <<snd, life, cached, data, query, losses>>

(* SendStopMessageUDPIFC                                                   *)
SendStopMessage ==
    /\ life = "up" /\ main = "idle" /\ rx.active /\ ~rx.stop
    /\ IF rx.eos
       THEN /\ rx' = [Drain(rx) EXCEPT !.active = FALSE]
            /\ ToSender(DrainAcks(rx))
       ELSE /\ rx' = [rx EXCEPT !.stop = TRUE]
            /\ ToSender(IF rx.peer THEN {Ack(rx.seq - 1, rx.seq - 1, TRUE)} ELSE {})
    /\ UNCHANGED <<snd, life, cached, main, data, query, losses>>

(* TeardownUDPIFCInterconnect_Internal                                     *)
Teardown ==
    /\ life = "up"
    /\ life' = "torn"
    /\ rx' = NewConn    \* the connection is freed
    /\ ToSender(DrainAcks(rx))
    /\ main' = "idle"
    /\ UNCHANGED <<snd, cached, data, query, losses>>

(* The receiving slice is finished; it may also fail at any point.         *)
EndOfSlice == main = "idle" /\ (rx.stop \/ ~rx.active) /\ Teardown
----------------------------------------------------------------------------
Lose ==
    /\ losses < MaxLoss
    /\ losses' = losses + 1
    /\ \/ \E s \in data : data' = data \ {s} /\ UNCHANGED <<query, acks>>
       \/ query # 0 /\ query' = 0 /\ UNCHANGED <<data, acks>>
       \/ \E a \in acks : acks' = acks \ {a} /\ UNCHANGED <<data, query>>
    /\ UNCHANGED <<snd, rcv>>

SenderStep == SendChunk \/ GetBuffer \/ SendEOS \/ SendEOSDone
AckStep    == \E a \in acks : HandleAck(a)
MainStep   == RecvTupleChunk \/ ProcessChunks \/ PutRxBuffer

Next ==
    \/ SenderStep \/ AckStep
    \/ \E s \in Packet : Expire(s)
    \/ StatusQuery
    \/ \E s \in Packet : Receive(s)
    \/ ReceiveQuery
    \/ Setup \/ MainStep \/ SendStopMessage \/ Teardown
    \/ Lose

Spec == Init /\ [][Next]_vars

Fairness ==
    /\ WF_vars(SenderStep) /\ WF_vars(AckStep) /\ WF_vars(StatusQuery)
    /\ \A s \in Packet : WF_vars(Expire(s)) /\ WF_vars(Receive(s))
    /\ WF_vars(ReceiveQuery)
    /\ WF_vars(Setup) /\ WF_vars(MainStep) /\ WF_vars(EndOfSlice)

FairSpec == Spec /\ Fairness
----------------------------------------------------------------------------
(* Chunks reach the executor in the order they were sent, each once,       *)
(* whatever is lost, resent or reordered: the packet the main thread reads *)
(* at the head of the queue is the one after the last it put back          *)
(* (extraSeq), though slots are reused every Cap packets.                  *)
InOrder == main \in {"ready", "put"} => rx.slot[rx.head] = rx.extra + 1

(* A packet the sender no longer keeps for resending is at the receiver,   *)
(* in its queue or processed, as long as the receiver still wants data     *)
(* (handleAckedPacket frees it for good).                                  *)
NothingLost ==
    life # "torn" /\ ~rx.stop /\ rx.active
        => \A s \in 1 .. sentSeq : s \in unack \/ s <= rx.extra \/ rx.slot[(s - 1) % Cap] = s

(* A packet in flight to a receiver that still wants data has room in its  *)
(* queue: the branch of handleDataPacket that drops it and logs "received  *)
(* a packet when the queue is full" is never taken.                        *)
NoOverrun ==
    life = "up" /\ ~rx.stop /\ rx.active
        => \A s \in data : s >= rx.seq => ~Overrun(rx, s)

(* The sender gets out of SendChunk and SendEOS: lost acks at capacity 0   *)
(* are made up for by the status query, a receiver gone by handleMismatch. *)
SenderEnds == <>(phase = "done")

(* The receiver's main thread is never left asleep: it reaches the end of  *)
(* the stream, stops or fails.                                             *)
ReceiverEnds == <>(life = "torn")
============================================================================
