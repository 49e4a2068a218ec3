---------------------------- MODULE IcUdpProofs ----------------------------
(***************************************************************************)
(* Proofs about IcUdp: chunks reach the executor in order, a packet that   *)
(* the sender has freed is at the receiver, and no packet overruns the     *)
(* receiver's queue, for every queue depth, number of packets and losses.  *)
(***************************************************************************)
EXTENDS IcUdp, TLAPS, FiniteSetTheorems, WellFoundedInduction

-----------------------------------------------------------------------------
(* The inductive invariant                                                 *)

\* The receiver still wants data.
Open == life # "torn" /\ ~ rx.stop /\ rx.active

\* Packet s has been processed, or is in the queue of r.
At(r, s) == s <= r.extra \/ r.slot[(s - 1) % Cap] = s

\* The packet queue is a window of Cap packets after extraSeq: a packet is in its
\* own slot, and those before seq are all there.
QueueWindow(r) ==
    /\ r.seq - r.size = r.extra + 1
    /\ r.head = r.extra % Cap
    /\ \A p \in 0 .. Cap - 1 : r.slot[p] # NULL => /\ (r.slot[p] - 1) % Cap = p
                                                   /\ r.slot[p] > r.extra
                                                   /\ r.slot[p] <= r.extra + Cap
    /\ \A s \in r.extra + 1 .. r.seq - 1 : r.slot[(s - 1) % Cap] = s

\* Between two packets the one with number seq is not there.
QueueShape(r) ==
    /\ QueueWindow(r)
    /\ r.size < Cap => r.slot[(r.seq - 1) % Cap] = NULL

\* What the main thread may be doing; the queue has its shape until the
\* receiver stops, and while the last chunk is processed.
MainInv ==
    /\ life = "start" => rx = NewConn
    /\ main \in {"wait", "ready"} => life = "up" /\ ~ rx.stop /\ rx.active
    /\ main = "put" => life = "up" /\ ~ rx.stop
    /\ main = "put" /\ ~ rx.active => rx.slot[rx.head] = Last
    /\ main \in {"ready", "put"} => rx.slot[rx.head] # NULL
    /\ Open \/ main = "put" => QueueShape(rx)

\* Flow control: the sender has sent no more than the queue can take after what
\* it knows was consumed, and it knows of nothing that was not.
FlowInv ==
    /\ phase # "done" => capacity + sentSeq = consumedSeq + Cap
    /\ Open => sentSeq <= rx.extra + Cap
    /\ Open => consumedSeq <= rx.extra
    /\ stopReq => ~ Open

\* An ack in flight says of the receiver what is still so.
AckSound(r, a) ==
    /\ a.kind = "ack" => ~ a.stop /\ a.seq < r.seq /\ a.extra <= r.extra
    /\ a.kind = "dup" => a.extra < r.seq /\ At(r, a.seq)
    /\ a.kind = "disorder" => /\ a.lost \subseteq 1 .. a.seq - 1
                              /\ At(r, a.seq)
                              /\ \A l \in a.lost, s \in 1 .. a.seq :
                                    s < l => s \in a.lost \/ At(r, s)

AckInv == Open => \A a \in acks : AckSound(rx, a)

\* Whatever is told, asked or received was sent.
SentInv ==
    /\ data \subseteq 1 .. sentSeq
    /\ cached \subseteq 1 .. sentSeq
    /\ rx.seq <= sentSeq + 1
    /\ rx.extra <= sentSeq
    /\ \A p \in 0 .. Cap - 1 : rx.slot[p] <= sentSeq
    /\ query <= next - 1
    /\ \A a \in acks : a.extra <= next - 1

IcInv == TypeOK /\ SentInv /\ MainInv /\ FlowInv /\ AckInv /\ NothingLost

-----------------------------------------------------------------------------
(* Arithmetic of the slots                                                 *)

\* Division with remainder.
LEMMA DivMod ==
    ASSUME NEW a \in Nat, NEW c \in Nat \ {0}
    PROVE  /\ a % c \in 0 .. c - 1
           /\ a \div c \in Nat
           /\ a = c * (a \div c) + (a % c)
OBVIOUS

\* Two multiples of c that are less than c apart are equal.
LEMMA Multiple ==
    ASSUME NEW p \in Int, NEW q \in Int, NEW c \in Nat \ {0}, c * p - c * q < c, c * q - c * p < c
    PROVE  p = q
<1>1. CASE p > q
  <2>1. c * p - c * q = c * (p - q)
    OBVIOUS
  <2>2. c * (p - q) >= c
    BY <1>1
  <2> QED BY <2>1, <2>2
<1>2. CASE p < q
  <2>1. c * q - c * p = c * (q - p)
    OBVIOUS
  <2>2. c * (q - p) >= c
    BY <1>2
  <2> QED BY <2>1, <2>2
<1> QED BY <1>1, <1>2

\* Numbers less than c apart with the same remainder are equal.
LEMMA SameSlot ==
    ASSUME NEW a \in Nat, NEW b \in Nat, NEW c \in Nat \ {0},
           a % c = b % c, a - b < c, b - a < c
    PROVE  a = b
<1> DEFINE p == a \div c
           q == b \div c
<1>1. p \in Int /\ q \in Int /\ a = c * p + (a % c) /\ b = c * q + (b % c) /\ a % c \in Int
    BY DivMod
<1> HIDE DEF p, q
<1>4. c * p \in Int /\ c * q \in Int
    BY <1>1
<1>2. c * p - c * q = a - b
    BY <1>1, <1>4
<1>3. p = q
    BY <1>1, <1>2, <1>4, Multiple
<1> QED
    BY <1>1, <1>3

\* The remainder is what is left of a multiple.
LEMMA ModUnique ==
    ASSUME NEW q \in Int, NEW c \in Nat \ {0}, NEW r \in 0 .. c - 1, c * q + r \in Nat
    PROVE  (c * q + r) % c = r
<1> DEFINE a == c * q + r
           p == a \div c
           t == a % c
<1>0. a \in Nat
    OBVIOUS
<1> HIDE DEF a
<1>1. p \in Int /\ t \in 0 .. c - 1 /\ a = c * p + t
    BY <1>0, DivMod
<1> HIDE DEF p, t
<1>2. c * p \in Int /\ c * q \in Int
    BY <1>1
<1>3. c * p + t = c * q + r
    BY <1>1 DEF a
<1>4. p = q
    BY <1>1, <1>2, <1>3, Multiple
<1> QED
    BY <1>1, <1>3, <1>4 DEF a, t

\* A sum may be reduced before it is taken.
LEMMA ModAdd ==
    ASSUME NEW a \in Nat, NEW b \in Nat, NEW c \in Nat \ {0}
    PROVE  ((a % c) + b) % c = (a + b) % c
<1> DEFINE r == a % c
           q == a \div c
           m == r + b
           p == m \div c
           t == m % c
<1>1. q \in Int /\ r \in 0 .. c - 1 /\ a = c * q + r
    BY DivMod
<1> HIDE DEF q, r
<1>2. m \in Nat
    BY <1>1
<1> HIDE DEF m
<1>3. p \in Int /\ t \in 0 .. c - 1 /\ m = c * p + t
    BY <1>2, DivMod
<1> HIDE DEF p, t
<1>4. a + b = c * (q + p) + t /\ q + p \in Int
    BY <1>1, <1>3 DEF m
<1>5. c * (q + p) + t \in Nat
    BY <1>4
<1>6. (c * (q + p) + t) % c = t
    BY <1>3, <1>4, <1>5, ModUnique
<1> QED
    BY <1>4, <1>6 DEF t, m, r

\* A set of naturals with a bound has a greatest element, and Max is it.
LEMMA MaxFact ==
    ASSUME NEW N \in Nat, NEW S \in SUBSET (0 .. N), S # {}
    PROVE  Max(S) \in S /\ \A y \in S : y <= Max(S)
<1> DEFINE R == {ss \in Nat \X Nat : ss[1] < ss[2]}
           T == {N - x : x \in S}
<1>1. IsWellFoundedOn(R, Nat)
    BY NatLessThanWellFounded DEF OpToRel
<1>2. T \subseteq Nat /\ T # {}
  <2>1. \A x \in S : N - x \in Nat
      OBVIOUS
  <2>2. PICK x \in S : TRUE
      OBVIOUS
  <2>3. N - x \in T
      OBVIOUS
  <2> QED
      BY <2>1, <2>3
<1> HIDE DEF R, T
<1>3. PICK t \in T : \A u \in T : ~ (<<u, t>> \in R)
    BY <1>1, <1>2, WFMin
<1>4. PICK x \in S : t = N - x
    BY DEF T
<1>5. ASSUME NEW y \in S PROVE x >= y
  <2>1. N - y \in T /\ N - y \in Nat /\ t \in Nat
      BY <1>2 DEF T
  <2>2. ~ (N - y < t)
      BY <1>3, <2>1 DEF R
  <2> QED
      BY <1>4, <2>2
<1> QED
    BY <1>5 DEF Max

\* The greater of two.
LEMMA MaxPair ==
    ASSUME NEW a \in Int, NEW b \in Int
    PROVE  Max({a, b}) = IF a >= b THEN a ELSE b
BY DEF Max

\* The smaller of two.
LEMMA MinPair ==
    ASSUME NEW a \in Int, NEW b \in Int
    PROVE  Min({a, b}) = IF a <= b THEN a ELSE b
BY DEF Min

-----------------------------------------------------------------------------
(* The receiver's connection                                               *)

\* The constants, one by one.
LEMMA Constants == Last \in Nat \ {0} /\ Cap \in Nat \ {0} /\ SndBufs \in Nat \ {0}
BY IcAssumption

\* The fields of a connection.
LEMMA ConnType ==
    ASSUME NEW r \in Conn
    PROVE  /\ r.seq \in 1 .. Last + 1
           /\ r.extra \in 0 .. Last
           /\ r.slot \in [0 .. Cap - 1 -> {NULL} \cup Packet]
           /\ r.head \in 0 .. Cap - 1
           /\ r.size \in 0 .. Cap
           /\ r.eos \in BOOLEAN
           /\ r.stop \in BOOLEAN
           /\ r.active \in BOOLEAN
           /\ r.peer \in BOOLEAN
BY DEF Conn

\* A slot number.
LEMMA SlotNumber ==
    ASSUME NEW a \in Nat
    PROVE  a % Cap \in 0 .. Cap - 1
BY Constants, DivMod

\* Two packets of one window that share a slot are the same packet.
LEMMA OneInWindow ==
    ASSUME NEW e \in Nat, NEW s \in e + 1 .. e + Cap, NEW t \in e + 1 .. e + Cap,
           (s - 1) % Cap = (t - 1) % Cap
    PROVE  s = t
<1>1. s - 1 \in Nat /\ t - 1 \in Nat
    BY Constants
<1>2. (s - 1) - (t - 1) < Cap /\ (t - 1) - (s - 1) < Cap
    BY Constants
<1>3. s - 1 = t - 1
    BY <1>1, <1>2, Constants, SameSlot
<1> QED
    BY <1>1, <1>3, Constants

\* A slot of the window that is in use has the packet of the window that belongs there.
LEMMA SlotHolds ==
    ASSUME NEW r \in Conn, QueueWindow(r), NEW s \in r.extra + 1 .. r.extra + Cap,
           r.slot[(s - 1) % Cap] # NULL
    PROVE  r.slot[(s - 1) % Cap] = s
<1> DEFINE p == (s - 1) % Cap
           t == r.slot[p]
<1>0. r.extra \in Nat /\ s \in Nat /\ s - 1 \in Nat
    BY ConnType, Constants
<1>1. p \in 0 .. Cap - 1
    BY <1>0, SlotNumber
<1>2. t \in Packet
    BY <1>1, ConnType DEF Packet
<1>3. (t - 1) % Cap = p /\ t > r.extra /\ t <= r.extra + Cap
    BY <1>1 DEF QueueWindow
<1>4. t \in r.extra + 1 .. r.extra + Cap
    BY <1>0, <1>2, <1>3, Constants DEF Packet
<1> HIDE DEF t
<1> QED
    BY <1>0, <1>3, <1>4, OneInWindow DEF t

\* What the head and the tail of the queue are.
LEMMA HeadTail ==
    ASSUME NEW r \in Conn, QueueWindow(r)
    PROVE  /\ r.head = ((r.extra + 1) - 1) % Cap
           /\ r.extra + 1 \in r.extra + 1 .. r.extra + Cap
           /\ r.seq = r.extra + 1 + r.size
           /\ QTail(r) = (r.seq - 1) % Cap
<1>1. r.extra \in Nat /\ r.size \in Nat /\ r.seq \in Nat
    BY ConnType, Constants
<1>2. r.head = r.extra % Cap /\ r.seq - r.size = r.extra + 1
    BY DEF QueueWindow
<1>3. ((r.extra % Cap) + r.size) % Cap = (r.extra + r.size) % Cap
    BY <1>1, Constants, ModAdd
<1>4. r.extra + r.size = r.seq - 1 /\ (r.extra + 1) - 1 = r.extra
    BY <1>1, <1>2
<1> QED
    BY <1>1, <1>2, <1>3, <1>4, Constants DEF QTail

\* The packet at the head of the queue, if there is one, is the next one.
LEMMA HeadChunk ==
    ASSUME NEW r \in Conn, QueueShape(r), r.slot[r.head] # NULL
    PROVE  /\ r.slot[r.head] = r.extra + 1
           /\ r.extra + 1 \in Packet
           /\ r.size >= 1
<1>1. r.head = ((r.extra + 1) - 1) % Cap /\ r.extra + 1 \in r.extra + 1 .. r.extra + Cap
    BY HeadTail DEF QueueShape
<1>2. r.slot[r.head] = r.extra + 1
  <2> DEFINE s == r.extra + 1
  <2>1. s \in r.extra + 1 .. r.extra + Cap /\ r.head = (s - 1) % Cap
      BY <1>1, ConnType, Constants
  <2> HIDE DEF s
  <2>2. r.slot[(s - 1) % Cap] = s
      BY <2>1, SlotHolds DEF QueueShape
  <2> QED
      BY <2>1, <2>2 DEF s
<1>3. r.extra + 1 \in Packet
    BY <1>2, ConnType, Constants DEF Packet
<1>4. r.size >= 1
  <2>1. SUFFICES ASSUME r.size = 0 PROVE FALSE
      BY ConnType, Constants
  <2>2. r.seq - 1 = r.extra
    <3>1. r.seq = r.extra + 1 + r.size
        BY HeadTail DEF QueueShape
    <3> QED
        BY <2>1, <3>1, ConnType, Constants
  <2> QED
      BY <2>1, <2>2, Constants DEF QueueShape, QueueWindow
<1> QED
    BY <1>2, <1>3, <1>4

\* What MlPutRxBufferIFC makes of a connection.
LEMMA PutRxFields ==
    ASSUME NEW r \in Conn, r.slot[r.head] \in Packet, r.size >= 1
    PROVE  LET q == PutRx(r) IN
           /\ q \in Conn
           /\ q.seq = r.seq /\ q.extra = r.slot[r.head]
           /\ q.slot = [r.slot EXCEPT ![r.head] = NULL]
           /\ q.head = (r.head + 1) % Cap /\ q.size = r.size - 1
           /\ q.stop = r.stop /\ q.active = r.active
<1>1. (r.head + 1) % Cap \in 0 .. Cap - 1
  <2>1. r.head + 1 \in Nat
      BY ConnType, Constants
  <2> QED
      BY <2>1, SlotNumber
<1>2. [r.slot EXCEPT ![r.head] = NULL] \in [0 .. Cap - 1 -> {NULL} \cup Packet]
    BY ConnType
<1>3. r.size - 1 \in 0 .. Cap /\ r.slot[r.head] \in 0 .. Last
    BY ConnType, Constants DEF Packet
<1> QED
    BY <1>1, <1>2, <1>3 DEF PutRx, Conn

\* Putting the head back keeps the shape of the queue and loses no packet.
LEMMA PutRxShape ==
    ASSUME NEW r \in Conn, QueueShape(r), r.slot[r.head] # NULL
    PROVE  /\ PutRx(r) \in Conn
           /\ PutRx(r).extra = r.extra + 1
           /\ QueueShape(PutRx(r))
           /\ \A s \in Packet : At(r, s) => At(PutRx(r), s)
<1> DEFINE q == PutRx(r)
           e == r.extra
<1>1. r.slot[r.head] = e + 1 /\ e + 1 \in Packet /\ r.size >= 1
    BY HeadChunk
<1>2. /\ q \in Conn
      /\ q.seq = r.seq /\ q.extra = e + 1
      /\ q.slot = [r.slot EXCEPT ![r.head] = NULL]
      /\ q.head = (r.head + 1) % Cap /\ q.size = r.size - 1
    BY <1>1, PutRxFields
<1> HIDE DEF q
<1>3. /\ e \in Nat /\ r.seq \in Nat /\ r.size \in 0 .. Cap /\ r.head \in 0 .. Cap - 1
      /\ r.slot \in [0 .. Cap - 1 -> {NULL} \cup Packet]
    BY ConnType, Constants
<1>4. r.head = e % Cap /\ r.seq = e + 1 + r.size
    BY HeadTail, <1>3 DEF QueueShape
<1>5. q.seq - q.size = q.extra + 1
    BY <1>2, <1>3, <1>4
<1>6. q.head = q.extra % Cap
    BY <1>2, <1>3, <1>4, ModAdd, Constants
<1>7. ASSUME NEW p \in 0 .. Cap - 1, q.slot[p] # NULL
      PROVE  (q.slot[p] - 1) % Cap = p /\ q.slot[p] > q.extra /\ q.slot[p] <= q.extra + Cap
  <2>1. p # r.head /\ q.slot[p] = r.slot[p]
      BY <1>2, <1>3, <1>7
  <2>2. (r.slot[p] - 1) % Cap = p /\ r.slot[p] > e /\ r.slot[p] <= e + Cap /\ r.slot[p] \in Packet
      BY <1>3, <1>7, <2>1 DEF QueueShape, QueueWindow
  <2>3. r.slot[p] # e + 1
      BY <1>3, <1>4, <2>1, <2>2
  <2>4. r.slot[p] \in Nat
      BY <2>2, Constants DEF Packet
  <2>5. r.slot[p] > e + 1 /\ r.slot[p] <= e + 1 + Cap
      BY <1>3, <2>2, <2>3, <2>4, Constants
  <2> QED
      BY <1>2, <2>1, <2>2, <2>5
<1>8. ASSUME NEW s \in q.extra + 1 .. q.seq - 1
      PROVE  q.slot[(s - 1) % Cap] = s
  <2>1. s \in e + 1 .. r.seq - 1 /\ s # e + 1 /\ s \in Nat /\ s - 1 \in Nat
      BY <1>2, <1>3
  <2>2. r.slot[(s - 1) % Cap] = s
      BY <2>1 DEF QueueShape, QueueWindow
  <2>3. (s - 1) % Cap # r.head
      BY <1>1, <2>1, <2>2
  <2> QED
      BY <1>2, <1>3, <2>1, <2>2, <2>3, SlotNumber
<1>9. q.slot[(q.seq - 1) % Cap] = NULL
  <2>1. r.seq - 1 \in Nat /\ (r.seq - 1) % Cap \in 0 .. Cap - 1
    <3>1. r.seq - 1 \in Nat
        BY <1>3, <1>4
    <3> QED
        BY <3>1, SlotNumber
  <2>2. CASE r.size < Cap
      BY <1>2, <1>3, <2>1, <2>2 DEF QueueShape, QueueWindow
  <2>3. CASE r.size = Cap
    <3>1. r.seq - 1 = e + Cap
        BY <1>3, <1>4, <2>3
    <3>2. (e + Cap) % Cap = e % Cap
      <4>1. (Cap * 1 + 0) % Cap = 0
          BY ModUnique, Constants
      <4>2. ((Cap % Cap) + e) % Cap = (Cap + e) % Cap
          BY <1>3, ModAdd, Constants
      <4> QED
          BY <1>3, <4>1, <4>2, Constants
    <3>3. (q.seq - 1) % Cap = r.head
        BY <1>2, <1>4, <3>1, <3>2
    <3> QED
        BY <1>2, <1>3, <3>3
  <2> QED
      BY <1>3, <2>2, <2>3, Constants
<1>10. QueueShape(q)
    BY <1>5, <1>6, <1>7, <1>8, <1>9 DEF QueueShape, QueueWindow
<1>11. ASSUME NEW s \in Packet, At(r, s) PROVE At(q, s)
  <2>1. s \in Nat /\ s - 1 \in Nat /\ (s - 1) % Cap \in 0 .. Cap - 1
      BY SlotNumber, Constants DEF Packet
  <2>2. CASE s <= e
      BY <1>2, <1>3, <2>1, <2>2 DEF At
  <2>3. CASE r.slot[(s - 1) % Cap] = s
    <3>1. CASE (s - 1) % Cap = r.head
        BY <1>1, <1>2, <1>3, <2>1, <2>3, <3>1 DEF At
    <3>2. CASE (s - 1) % Cap # r.head
        BY <1>2, <1>3, <2>1, <2>3, <3>2 DEF At
    <3> QED
        BY <3>1, <3>2
  <2> QED
      BY <1>11, <2>2, <2>3 DEF At
<1> QED
    BY <1>2, <1>10, <1>11 DEF q

\* A packet tells the receiver its peer; nothing else changes.
Met(c, s) == [c EXCEPT !.peer = @ \/ s <= Cap]

\* What Met changes, and that it changes nothing else.
LEMMA MetFields ==
    ASSUME NEW c \in Conn, NEW s \in Packet
    PROVE  LET r == Met(c, s) IN
           /\ r \in Conn
           /\ r.seq = c.seq /\ r.extra = c.extra /\ r.slot = c.slot /\ r.head = c.head
           /\ r.size = c.size /\ r.eos = c.eos /\ r.stop = c.stop /\ r.active = c.active
<1>1. \A b \in BOOLEAN : LET r == [c EXCEPT !.peer = b] IN
         /\ r \in Conn
         /\ r.seq = c.seq /\ r.extra = c.extra /\ r.slot = c.slot /\ r.head = c.head
         /\ r.size = c.size /\ r.eos = c.eos /\ r.stop = c.stop /\ r.active = c.active
    BY DEF Conn
<1>2. (c.peer \/ s <= Cap) \in BOOLEAN
    OBVIOUS
<1> QED
    BY <1>1, <1>2 DEF Met

\* The queue is the same after the receiver has met its peer.
LEMMA MetShape ==
    ASSUME NEW c \in Conn, NEW s \in Packet
    PROVE  /\ QueueShape(c) => QueueShape(Met(c, s))
           /\ \A t \in Packet : At(c, t) => At(Met(c, s), t)
BY MetFields DEF QueueShape, QueueWindow, At

\* A packet is put into its slot.
LEMMA PutSlotFields ==
    ASSUME NEW r \in Conn, NEW s \in Packet
    PROVE  LET q == PutSlot(r, s) IN
           /\ q \in Conn
           /\ q.slot = [r.slot EXCEPT ![(s - 1) % Cap] = s]
           /\ q.seq = r.seq /\ q.extra = r.extra /\ q.head = r.head
           /\ q.size = r.size /\ q.eos = r.eos /\ q.stop = r.stop /\ q.active = r.active
<1>1. s - 1 \in Nat
    BY Constants DEF Packet
<1>2. (s - 1) % Cap \in 0 .. Cap - 1
    BY <1>1, SlotNumber
<1>3. [r.slot EXCEPT ![(s - 1) % Cap] = s] \in [0 .. Cap - 1 -> {NULL} \cup Packet]
    BY <1>2, ConnType
<1> QED
    BY <1>3 DEF PutSlot, Conn

\* A packet of the window is stored: no other is lost, and the queue has its
\* shape unless the packet is the one at the tail.
LEMMA StoreShape ==
    ASSUME NEW r \in Conn, QueueShape(r), NEW s \in Packet,
           s >= r.seq, s <= r.extra + Cap, r.slot[(s - 1) % Cap] = NULL
    PROVE  /\ QueueWindow(PutSlot(r, s))
           /\ (s - 1) % Cap # QTail(r) => QueueShape(PutSlot(r, s))
           /\ PutSlot(r, s).slot[(s - 1) % Cap] = s
           /\ \A t \in Packet : At(r, t) => At(PutSlot(r, s), t)
<1> DEFINE q == PutSlot(r, s)
           p == (s - 1) % Cap
<1>1. /\ q \in Conn
      /\ q.slot = [r.slot EXCEPT ![p] = s]
      /\ q.seq = r.seq /\ q.extra = r.extra /\ q.head = r.head /\ q.size = r.size
    BY PutSlotFields
<1> HIDE DEF q
<1>2. /\ r.slot \in [0 .. Cap - 1 -> {NULL} \cup Packet]
      /\ r.extra \in Nat /\ r.seq \in Nat /\ r.size \in Nat /\ s \in Nat /\ s - 1 \in Nat
      /\ Cap \in Nat
    BY ConnType, Constants DEF Packet
<1>3. p \in 0 .. Cap - 1 /\ r.slot[p] = NULL
    BY <1>2, SlotNumber
<1>4. r.seq = r.extra + 1 + r.size /\ QTail(r) = (r.seq - 1) % Cap
    BY HeadTail DEF QueueShape
<1>5. ASSUME NEW i \in 0 .. Cap - 1, q.slot[i] # NULL
      PROVE  (q.slot[i] - 1) % Cap = i /\ q.slot[i] > q.extra /\ q.slot[i] <= q.extra + Cap
  <2>1. CASE i = p
    <3>1. q.slot[i] = s
        BY <1>1, <1>2, <1>3, <2>1
    <3>2. s > r.extra
        BY <1>2, <1>4
    <3> QED
        BY <1>1, <2>1, <3>1, <3>2
  <2>2. CASE i # p
    <3>1. q.slot[i] = r.slot[i]
        BY <1>1, <1>2, <1>3, <2>2
    <3> QED
        BY <1>1, <1>5, <3>1 DEF QueueShape, QueueWindow
  <2> QED
      BY <2>1, <2>2
<1>6. ASSUME NEW t \in Nat, t >= 1, r.slot[(t - 1) % Cap] = t
      PROVE  q.slot[(t - 1) % Cap] = t
  <2>1. t - 1 \in Nat
      BY <1>6
  <2>2. (t - 1) % Cap \in 0 .. Cap - 1
      BY <2>1, SlotNumber
  <2>3. (t - 1) % Cap # p
      BY <1>3, <1>6 DEF NULL
  <2> QED
      BY <1>1, <1>2, <1>3, <1>6, <2>2, <2>3
<1>7. ASSUME NEW t \in q.extra + 1 .. q.seq - 1
      PROVE  q.slot[(t - 1) % Cap] = t
  <2>1. t \in Nat /\ t >= 1 /\ t \in r.extra + 1 .. r.seq - 1
      BY <1>1, <1>2
  <2>2. r.slot[(t - 1) % Cap] = t
      BY <2>1 DEF QueueShape, QueueWindow
  <2> QED
      BY <2>1, <2>2, <1>6
<1>8. QueueWindow(q)
  <2>1. r.seq - r.size = r.extra + 1 /\ r.head = r.extra % Cap
      BY DEF QueueShape, QueueWindow
  <2> QED
      BY <1>1, <2>1, <1>5, <1>7 DEF QueueWindow
<1>9. ASSUME p # QTail(r) PROVE QueueShape(q)
  <2>1. r.seq - 1 \in Nat
      BY <1>2, <1>4
  <2>2. (r.seq - 1) % Cap \in 0 .. Cap - 1
      BY <2>1, SlotNumber
  <2>3. r.size < Cap => q.slot[(r.seq - 1) % Cap] = NULL
      BY <1>1, <1>2, <1>3, <1>4, <1>9, <2>2 DEF QueueShape
  <2> QED
      BY <1>1, <1>8, <2>3 DEF QueueShape
<1>10. ASSUME NEW t \in Packet, At(r, t) PROVE At(q, t)
  <2>1. t \in Nat /\ t >= 1
      BY Constants DEF Packet
  <2>2. CASE t <= r.extra
      BY <1>1, <2>2 DEF At
  <2>3. CASE r.slot[(t - 1) % Cap] = t
      BY <1>6, <2>1, <2>3 DEF At
  <2> QED
      BY <1>10, <2>2, <2>3 DEF At
<1> QED
    BY <1>1, <1>2, <1>3, <1>8, <1>9, <1>10 DEF q

\* How far the tail may be moved.
LEMMA ReadyFact ==
    ASSUME NEW r \in Conn, r.size < Cap
    PROVE  /\ Ready(r) \in 0 .. Cap - r.size
           /\ \A i \in 0 .. Ready(r) - 1 : SlotAfter(r, i) # NULL
           /\ Ready(r) < Cap - r.size => SlotAfter(r, Ready(r)) = NULL
<1> DEFINE S == {n \in 0 .. Cap - r.size : \A i \in 0 .. n - 1 : SlotAfter(r, i) # NULL}
           n == Ready(r)
<1>1. r.size \in Nat /\ Cap - r.size \in Nat
    BY ConnType, Constants
<1>2. S \in SUBSET (0 .. Cap - r.size) /\ 0 \in S
    BY <1>1
<1>3. n = Max(S)
    BY DEF Ready
<1>4. n \in S /\ \A m \in S : m <= n
    BY <1>1, <1>2, <1>3, MaxFact
<1>5. n \in 0 .. Cap - r.size /\ \A i \in 0 .. n - 1 : SlotAfter(r, i) # NULL
    BY <1>4
<1> HIDE DEF n
<1>6. ASSUME n < Cap - r.size, SlotAfter(r, n) # NULL PROVE FALSE
  <2>1. n + 1 \in 0 .. Cap - r.size
      BY <1>1, <1>5, <1>6
  <2>2. \A i \in 0 .. (n + 1) - 1 : i \in 0 .. n - 1 \/ i = n
      BY <1>1, <1>5
  <2>3. n + 1 \in S
      BY <1>5, <1>6, <2>1, <2>2
  <2> QED
      BY <1>1, <1>4, <1>5, <2>3
<1> QED
    BY <1>5, <1>6 DEF n

\* What moving the tail by n makes of a connection.
LEMMA MoveTailFields ==
    ASSUME NEW r \in Conn, NEW n \in Nat, NEW b \in BOOLEAN,
           r.size + n <= Cap, r.seq + n <= Last + 1
    PROVE  LET m == [r EXCEPT !.size = r.size + n, !.seq = r.seq + n, !.eos = b] IN
           /\ m \in Conn
           /\ m.size = r.size + n /\ m.seq = r.seq + n
           /\ m.extra = r.extra /\ m.slot = r.slot /\ m.head = r.head
           /\ m.stop = r.stop /\ m.active = r.active
<1>1. r.size + n \in 0 .. Cap /\ r.seq + n \in 1 .. Last + 1
    BY ConnType, Constants
<1> QED
    BY <1>1 DEF Conn

\* Moving the tail over the packets that are there restores the shape.
LEMMA MoveTailShape ==
    ASSUME NEW r \in Conn, QueueWindow(r), r.size < Cap
    PROVE  LET m == MoveTail(r) IN
           /\ m \in Conn
           /\ QueueShape(m)
           /\ m.seq >= r.seq
           /\ m.extra = r.extra /\ m.slot = r.slot /\ m.head = r.head
           /\ m.stop = r.stop /\ m.active = r.active
<1> DEFINE n == Ready(r)
           b == r.eos \/ SlotAfter(r, n - 1) = Last
           m == MoveTail(r)
<1>1. /\ r.extra \in Nat /\ r.seq \in Nat /\ r.size \in Nat /\ Cap \in Nat /\ Last \in Nat
      /\ r.seq >= 1 /\ r.seq <= Last + 1
    BY ConnType, Constants
<1>0. r.slot \in [0 .. Cap - 1 -> {NULL} \cup Packet]
    BY ConnType
<1>2. n \in 0 .. Cap - r.size
    BY ReadyFact
<1>13. /\ \A i \in 0 .. n - 1 : SlotAfter(r, i) # NULL
       /\ n < Cap - r.size => SlotAfter(r, n) = NULL
    BY ReadyFact
<1>3. b \in BOOLEAN
    OBVIOUS
<1>4. m = [r EXCEPT !.size = r.size + n, !.seq = r.seq + n, !.eos = b]
    BY DEF MoveTail
<1> HIDE DEF n, b, m
<1>5. r.seq = r.extra + 1 + r.size
    BY HeadTail
<1>14. QTail(r) = (r.seq - 1) % Cap
    BY HeadTail
<1>6. ASSUME NEW i \in Nat PROVE SlotAfter(r, i) = r.slot[((r.seq + i) - 1) % Cap]
  <2>1. r.seq - 1 \in Nat /\ (r.seq - 1) + i = (r.seq + i) - 1
      BY <1>1
  <2>2. (((r.seq - 1) % Cap) + i) % Cap = ((r.seq - 1) + i) % Cap
      BY <2>1, ModAdd, Constants
  <2> QED
      BY <1>14, <2>1, <2>2 DEF SlotAfter
<1>7. ASSUME NEW i \in 0 .. n - 1
      PROVE  r.slot[((r.seq + i) - 1) % Cap] = r.seq + i /\ r.seq + i \in Packet
  <2>1. i \in Nat /\ r.seq + i \in r.extra + 1 .. r.extra + Cap
      BY <1>1, <1>2, <1>5
  <2>2. r.slot[((r.seq + i) - 1) % Cap] # NULL
      BY <1>1, <1>13, <1>6, <2>1
  <2>3. r.slot[((r.seq + i) - 1) % Cap] = r.seq + i
    <3> DEFINE s == r.seq + i
    <3>1. s \in r.extra + 1 .. r.extra + Cap /\ r.slot[(s - 1) % Cap] # NULL
        BY <2>1, <2>2, Zenon
    <3> HIDE DEF s
    <3>2. r.slot[(s - 1) % Cap] = s
        BY <3>1, SlotHolds
    <3> QED
        BY <3>2, Zenon DEF s
  <2>4. (r.seq + i) - 1 \in Nat
      BY <1>1, <2>1
  <2>5. ((r.seq + i) - 1) % Cap \in 0 .. Cap - 1
      BY <2>4, SlotNumber
  <2> QED
    <3>1. r.slot[((r.seq + i) - 1) % Cap] \in {NULL} \cup Packet
        BY <1>0, <2>5
    <3>2. r.seq + i \in Packet
        BY <2>2, <2>3, <3>1, Zenon
    <3> QED
        BY <2>3, <3>2, Zenon
<1>8. r.seq + n <= Last + 1 /\ r.size + n <= Cap /\ n \in Nat
  <2>1. CASE n = 0
      BY <1>1, <1>2, <2>1
  <2>2. CASE n # 0
    <3>1. n - 1 \in 0 .. n - 1
        BY <1>1, <1>2, <2>2
    <3>2. r.seq + (n - 1) \in Packet
        BY <3>1, <1>7
    <3> QED
        BY <1>1, <1>2, <3>2 DEF Packet
  <2> QED
      BY <2>1, <2>2
<1>9. /\ m \in Conn
      /\ m.size = r.size + n /\ m.seq = r.seq + n
      /\ m.extra = r.extra /\ m.slot = r.slot /\ m.head = r.head
      /\ m.stop = r.stop /\ m.active = r.active
    BY <1>3, <1>4, <1>8, MoveTailFields
<1>10. ASSUME NEW s \in m.extra + 1 .. m.seq - 1 PROVE m.slot[(s - 1) % Cap] = s
  <2>1. CASE s < r.seq
    <3>1. s \in r.extra + 1 .. r.seq - 1
        BY <1>1, <1>8, <1>9, <2>1
    <3> QED
        BY <1>9, <3>1 DEF QueueWindow
  <2>2. CASE s >= r.seq
    <3>1. s - r.seq \in 0 .. n - 1 /\ s = r.seq + (s - r.seq)
        BY <1>1, <1>8, <1>9, <2>2
    <3>2. r.slot[((r.seq + (s - r.seq)) - 1) % Cap] = r.seq + (s - r.seq)
        BY <1>7, <3>1
    <3> QED
        BY <1>1, <1>9, <3>1, <3>2
  <2> QED
      BY <1>1, <1>8, <1>9, <2>1, <2>2
<1>11. m.size < Cap => m.slot[(m.seq - 1) % Cap] = NULL
  <2>1. SUFFICES ASSUME r.size + n < Cap PROVE m.slot[(m.seq - 1) % Cap] = NULL
      BY <1>9
  <2>2. n < Cap - r.size
      BY <1>1, <1>8, <2>1
  <2>3. r.slot[((r.seq + n) - 1) % Cap] = NULL
      BY <1>6, <1>8, <1>13, <2>2
  <2> QED
      BY <1>1, <1>8, <1>9, <2>3
<1>12. QueueWindow(m)
  <2>1. m.seq - m.size = m.extra + 1
      BY <1>1, <1>5, <1>8, <1>9
  <2> QED
      BY <1>9, <1>10, <2>1 DEF QueueWindow
<1> QED
    BY <1>1, <1>8, <1>9, <1>11, <1>12 DEF QueueShape, m

\* The messages of the receiver.
LEMMA AckFields ==
    ASSUME NEW q \in 0 .. Last, NEW e \in 0 .. Last, NEW b \in BOOLEAN
    PROVE  /\ Ack(q, e, b) \in AckMsg
           /\ Ack(q, e, b).kind = "ack" /\ Ack(q, e, b).seq = q
           /\ Ack(q, e, b).extra = e /\ Ack(q, e, b).stop = b
BY DEF Ack, AckMsg

\* The ack of a duplicate.
LEMMA DuplicateAckFields ==
    ASSUME NEW q \in 0 .. Last, NEW e \in 0 .. Last
    PROVE  /\ DuplicateAck(q, e) \in AckMsg
           /\ DuplicateAck(q, e).kind = "dup" /\ DuplicateAck(q, e).seq = q
           /\ DuplicateAck(q, e).extra = e
BY DEF DuplicateAck, AckMsg

\* The report of a gap.
LEMMA DisorderAckFields ==
    ASSUME NEW q \in 0 .. Last, NEW e \in 0 .. Last, NEW l \in SUBSET Packet
    PROVE  /\ DisorderAck(q, e, l) \in AckMsg
           /\ DisorderAck(q, e, l).kind = "disorder" /\ DisorderAck(q, e, l).seq = q
           /\ DisorderAck(q, e, l).extra = e /\ DisorderAck(q, e, l).lost = l
BY DEF DisorderAck, AckMsg

\* extraSeq is before seq.
LEMMA AfterExtra ==
    ASSUME NEW r \in Conn, QueueWindow(r)
    PROVE  r.extra < r.seq
<1>1. r.seq = r.extra + 1 + r.size
    BY HeadTail
<1> QED
    BY <1>1, ConnType, Constants

\* Packets before seq have arrived.
LEMMA BeforeSeq ==
    ASSUME NEW r \in Conn, QueueWindow(r), NEW t \in Nat, t < r.seq
    PROVE  At(r, t)
<1>1. r.extra \in Nat /\ r.seq \in Nat
    BY ConnType, Constants
<1>2. CASE t <= r.extra
    BY <1>2 DEF At
<1>3. CASE t > r.extra
  <2>1. t \in r.extra + 1 .. r.seq - 1
      BY <1>1, <1>3
  <2> QED
      BY <2>1 DEF QueueWindow, At
<1> QED
    BY <1>1, <1>2, <1>3

\* What handleDataPacket promises of the connection x, the acks as and the
\* wake-up w it leaves when packet s comes in on connection c.
DataResult(c, s, x, as, w) ==
    /\ x \in Conn
    /\ QueueShape(x)
    /\ x.extra = c.extra /\ x.stop = c.stop /\ x.active = c.active /\ x.head = c.head
    /\ x.seq >= c.seq
    /\ \A t \in Packet : At(c, t) => At(x, t)
    /\ \A p \in 0 .. Cap - 1 : x.slot[p] = c.slot[p] \/ (c.slot[p] = NULL /\ x.slot[p] = s)
    /\ w => x.slot[x.head] # NULL
    /\ \A a \in as : a \in AckMsg /\ AckSound(x, a) /\ a.extra < x.seq

\* A packet that arrived before is acknowledged again.
LEMMA DataOld ==
    ASSUME NEW c \in Conn, QueueShape(c), ~ c.stop, NEW s \in Packet
    PROVE  DataResult(c, s, Met(c, s), {DataAck(Met(c, s))}, FALSE)
<1> DEFINE r == Met(c, s)
           a == DataAck(r)
<1>1. /\ r \in Conn
      /\ r.seq = c.seq /\ r.extra = c.extra /\ r.slot = c.slot /\ r.head = c.head
      /\ r.size = c.size /\ r.stop = c.stop /\ r.active = c.active
    BY MetFields
<1>2. QueueShape(r) /\ \A t \in Packet : At(c, t) => At(r, t)
    BY MetShape
<1> HIDE DEF r
<1>3. r.seq - 1 \in 0 .. Last /\ r.extra \in 0 .. Last /\ r.seq \in Nat /\ r.stop \in BOOLEAN
    BY <1>1, ConnType, Constants
<1>4. a \in AckMsg /\ a.kind = "ack" /\ a.seq = r.seq - 1 /\ a.extra = r.extra /\ a.stop = r.stop
    BY <1>3, AckFields DEF DataAck
<1> HIDE DEF a
<1>5. r.extra < r.seq
    BY <1>1, <1>2, AfterExtra DEF QueueShape
<1>6. AckSound(r, a)
    BY <1>1, <1>3, <1>4 DEF AckSound
<1>7. \A b \in {a} : b \in AckMsg /\ AckSound(r, b) /\ b.extra < r.seq
    BY <1>4, <1>5, <1>6
<1>8. DataResult(c, s, r, {a}, FALSE)
    BY <1>1, <1>2, <1>3, <1>7 DEF DataResult
<1> QED
    BY <1>8 DEF r, a

\* A duplicate of a packet that waits in the queue.
LEMMA DataDuplicate ==
    ASSUME NEW c \in Conn, QueueShape(c), NEW s \in Packet,
           s > c.extra, s <= c.extra + Cap, c.slot[(s - 1) % Cap] # NULL
    PROVE  DataResult(c, s, Met(c, s), {DuplicateAck(s, Met(c, s).seq - 1)}, FALSE)
<1> DEFINE r == Met(c, s)
           a == DuplicateAck(s, r.seq - 1)
<1>1. /\ r \in Conn
      /\ r.seq = c.seq /\ r.extra = c.extra /\ r.slot = c.slot /\ r.head = c.head
      /\ r.size = c.size /\ r.stop = c.stop /\ r.active = c.active
    BY MetFields
<1>2. QueueShape(r) /\ \A t \in Packet : At(c, t) => At(r, t)
    BY MetShape
<1> HIDE DEF r
<1>3. /\ r.seq - 1 \in 0 .. Last /\ r.extra \in Nat /\ r.seq \in Nat /\ s \in 0 .. Last
      /\ Cap \in Nat
    BY <1>1, ConnType, Constants DEF Packet
<1>4. a \in AckMsg /\ a.kind = "dup" /\ a.seq = s /\ a.extra = r.seq - 1
    BY <1>3, DuplicateAckFields
<1> HIDE DEF a
<1>5. s \in r.extra + 1 .. r.extra + Cap
    BY <1>1, <1>3
<1>6. At(r, s)
    BY <1>1, <1>2, <1>5, SlotHolds DEF QueueShape, At
<1>7. AckSound(r, a)
    BY <1>3, <1>4, <1>6 DEF AckSound
<1>8. \A b \in {a} : b \in AckMsg /\ AckSound(r, b) /\ b.extra < r.seq
    BY <1>3, <1>4, <1>7
<1>9. DataResult(c, s, r, {a}, FALSE)
    BY <1>1, <1>2, <1>3, <1>8 DEF DataResult
<1> QED
    BY <1>9 DEF r, a

\* A packet of the window is put into its slot on a connection that has met its peer.
LEMMA DataStored ==
    ASSUME NEW c \in Conn, QueueShape(c), NEW s \in Packet,
           s >= c.seq, s <= c.extra + Cap, c.slot[(s - 1) % Cap] = NULL
    PROVE  LET r == Met(c, s)
               q == PutSlot(r, s) IN
           /\ r \in Conn /\ q \in Conn
           /\ QueueShape(r) /\ QueueWindow(q)
           /\ (s - 1) % Cap # QTail(r) => QueueShape(q)
           /\ q.seq = c.seq /\ q.extra = c.extra /\ q.head = c.head /\ q.size = c.size
           /\ q.stop = c.stop /\ q.active = c.active /\ q.size < Cap
           /\ \A t \in Packet : At(c, t) => At(q, t)
           /\ q.slot[(s - 1) % Cap] = s
           /\ \A p \in 0 .. Cap - 1 : q.slot[p] = c.slot[p] \/ (c.slot[p] = NULL /\ q.slot[p] = s)
<1> DEFINE r == Met(c, s)
           q == PutSlot(r, s)
           i == (s - 1) % Cap
<1>1. /\ r \in Conn
      /\ r.seq = c.seq /\ r.extra = c.extra /\ r.slot = c.slot /\ r.head = c.head
      /\ r.size = c.size /\ r.stop = c.stop /\ r.active = c.active
    BY MetFields
<1>2. QueueShape(r) /\ \A t \in Packet : At(c, t) => At(r, t)
    BY MetShape
<1> HIDE DEF r
<1>3. /\ q \in Conn
      /\ q.slot = [r.slot EXCEPT ![i] = s]
      /\ q.seq = r.seq /\ q.extra = r.extra /\ q.head = r.head
      /\ q.size = r.size /\ q.stop = r.stop /\ q.active = r.active
    BY <1>1, PutSlotFields
<1>4. s >= r.seq /\ s <= r.extra + Cap /\ r.slot[(s - 1) % Cap] = NULL
    BY <1>1
<1>5. /\ QueueWindow(q)
      /\ (s - 1) % Cap # QTail(r) => QueueShape(q)
      /\ q.slot[i] = s
      /\ \A t \in Packet : At(r, t) => At(q, t)
    BY <1>1, <1>2, <1>4, StoreShape
<1> HIDE DEF q
<1>6. q.size < Cap
  <2>1. c.seq = c.extra + 1 + c.size
      BY HeadTail DEF QueueShape
  <2>2. c.seq \in Nat /\ c.extra \in Nat /\ c.size \in Nat /\ Cap \in Nat /\ s \in Nat
      BY ConnType, Constants DEF Packet
  <2> QED
      BY <1>1, <1>3, <2>1, <2>2
<1>7. ASSUME NEW p \in 0 .. Cap - 1
      PROVE  q.slot[p] = c.slot[p] \/ (c.slot[p] = NULL /\ q.slot[p] = s)
  <2>1. r.slot \in [0 .. Cap - 1 -> {NULL} \cup Packet]
      BY <1>1, ConnType
  <2>2. CASE p = i
      BY <1>5, <2>2
  <2>3. CASE p # i
      BY <1>1, <1>3, <2>1, <2>3
  <2> QED
      BY <2>2, <2>3
<1> QED
    BY <1>1, <1>2, <1>3, <1>5, <1>6, <1>7 DEF q, r

\* The packet at the tail of the queue.
LEMMA DataTail ==
    ASSUME NEW c \in Conn, QueueShape(c), ~ c.stop, NEW s \in Packet,
           s >= c.seq, s <= c.extra + Cap, c.slot[(s - 1) % Cap] = NULL
    PROVE  LET m == MoveTail(PutSlot(Met(c, s), s)) IN
           DataResult(c, s, m, {DataAck(m)}, (s - 1) % Cap = c.head)
<1> DEFINE q == PutSlot(Met(c, s), s)
           m == MoveTail(q)
           a == DataAck(m)
<1>1. /\ q \in Conn /\ QueueWindow(q)
      /\ q.seq = c.seq /\ q.extra = c.extra /\ q.head = c.head
      /\ q.stop = c.stop /\ q.active = c.active /\ q.size < Cap
    BY DataStored
<1>2. /\ \A t \in Packet : At(c, t) => At(q, t)
      /\ q.slot[(s - 1) % Cap] = s
      /\ \A p \in 0 .. Cap - 1 : q.slot[p] = c.slot[p] \/ (c.slot[p] = NULL /\ q.slot[p] = s)
    BY DataStored
<1> HIDE DEF q
<1>3. /\ m \in Conn /\ QueueShape(m) /\ m.seq >= q.seq
      /\ m.extra = q.extra /\ m.slot = q.slot /\ m.head = q.head
      /\ m.stop = q.stop /\ m.active = q.active
    BY <1>1, MoveTailShape
<1> HIDE DEF m
<1>4. /\ m.seq - 1 \in 0 .. Last /\ m.extra \in 0 .. Last /\ m.seq \in Nat /\ m.stop \in BOOLEAN
    BY <1>3, ConnType, Constants
<1>5. a \in AckMsg /\ a.kind = "ack" /\ a.seq = m.seq - 1 /\ a.extra = m.extra /\ a.stop = m.stop
    BY <1>4, AckFields DEF DataAck
<1> HIDE DEF a
<1>6. m.extra < m.seq
    BY <1>3, AfterExtra DEF QueueShape
<1>7. AckSound(m, a)
    BY <1>1, <1>3, <1>4, <1>5 DEF AckSound
<1>8. \A b \in {a} : b \in AckMsg /\ AckSound(m, b) /\ b.extra < m.seq
    BY <1>5, <1>6, <1>7
<1>9. \A t \in Packet : At(c, t) => At(m, t)
    BY <1>2, <1>3 DEF At
<1>10. (s - 1) % Cap = c.head => m.slot[m.head] # NULL
  <2>1. s # NULL
      BY Constants DEF Packet, NULL
  <2> QED
      BY <1>1, <1>2, <1>3, <2>1
<1>11. DataResult(c, s, m, {a}, (s - 1) % Cap = c.head)
    BY <1>1, <1>2, <1>3, <1>8, <1>9, <1>10 DEF DataResult
<1> QED
    BY <1>11 DEF a, m, q

\* The report is cut at its end: what is missing before a packet it names is
\* named too.
LEMMA LostFirst ==
    ASSUME NEW r, NEW s \in Nat, r.seq \in Nat,
           NEW u \in Lost(r, s), NEW t \in Gaps(r, s), t < u
    PROVE  t \in Lost(r, s)
<1> DEFINE before(x) == {k \in Gaps(r, s) : k < x}
<1>1. Gaps(r, s) \subseteq r.seq .. s - 1
    BY DEF Gaps
<1>2. u \in Gaps(r, s) /\ Cardinality(before(u)) < MaxSeqs
    BY DEF Lost
<1>3. Gaps(r, s) \subseteq Int /\ t \in Int /\ u \in Int
    BY <1>1, <1>2
<1>4. before(t) \subseteq before(u)
    BY <1>3
<1>5. IsFiniteSet(before(u))
  <2>1. IsFiniteSet(r.seq .. s - 1)
      BY FS_Interval
  <2>2. before(u) \subseteq r.seq .. s - 1
      BY <1>1
  <2> QED
      BY <2>1, <2>2, FS_Subset
<1>6. Cardinality(before(t)) <= Cardinality(before(u))
    BY <1>4, <1>5, FS_Subset
<1>7. /\ Cardinality(before(t)) \in Nat /\ Cardinality(before(u)) \in Nat
      /\ MaxSeqs \in Nat
  <2>1. IsFiniteSet(before(t))
      BY <1>4, <1>5, FS_Subset
  <2> QED
      BY <1>5, <2>1, FS_CardinalityType, IcAssumption
<1>8. Cardinality(before(t)) < MaxSeqs
  <2> HIDE DEF before
  <2> QED
      BY <1>2, <1>6, <1>7
<1> QED
    BY <1>8 DEF Lost

\* A packet after a gap: the report names what is missing before it.
LEMMA DataGap ==
    ASSUME NEW c \in Conn, QueueShape(c), NEW s \in Packet,
           s >= c.seq, s <= c.extra + Cap, c.slot[(s - 1) % Cap] = NULL,
           (s - 1) % Cap # QTail(Met(c, s))
    PROVE  LET r == Met(c, s)
               q == PutSlot(r, s) IN
           DataResult(c, s, q, {DisorderAck(s, r.seq - 1, Lost(r, s))}, (s - 1) % Cap = c.head)
<1> DEFINE r == Met(c, s)
           q == PutSlot(r, s)
           l == Lost(r, s)
           a == DisorderAck(s, r.seq - 1, l)
<1>1. /\ r \in Conn /\ QueueShape(r) /\ q \in Conn /\ QueueShape(q)
      /\ q.seq = c.seq /\ q.extra = c.extra /\ q.head = c.head
      /\ q.stop = c.stop /\ q.active = c.active
    BY DataStored
<1>2. /\ \A t \in Packet : At(c, t) => At(q, t)
      /\ q.slot[(s - 1) % Cap] = s
      /\ \A p \in 0 .. Cap - 1 : q.slot[p] = c.slot[p] \/ (c.slot[p] = NULL /\ q.slot[p] = s)
    BY DataStored
<1>3. r.seq = c.seq /\ r.extra = c.extra /\ r.slot = c.slot
    BY MetFields
<1> HIDE DEF q, r
<1>4. /\ r.seq - 1 \in 0 .. Last /\ r.seq \in Nat /\ r.seq >= 1 /\ r.extra \in Nat
      /\ s \in 0 .. Last /\ s \in Nat /\ Cap \in Nat /\ Last \in Nat
    BY <1>1, ConnType, Constants DEF Packet
<1>5. l \in SUBSET Packet /\ l \subseteq 1 .. s - 1
    BY <1>4 DEF Lost, Gaps, Packet
<1>6. ASSUME NEW u \in l, NEW t \in 1 .. s, t < u PROVE t \in l \/ At(q, t)
  <2>1. t \in Nat /\ t \in Packet
      BY <1>4 DEF Packet
  <2>2. CASE t < r.seq
    <3>1. At(c, t)
        BY <1>3, <2>1, <2>2, BeforeSeq DEF QueueShape
    <3> QED
        BY <1>2, <2>1, <3>1
  <2>3. CASE t = s
      BY <1>2, <2>3 DEF At
  <2>4. CASE t >= r.seq /\ t # s /\ r.slot[(t - 1) % Cap] = NULL
    <3>1. t \in r.seq .. s - 1
        BY <1>4, <2>1, <2>4
    <3>2. t \in Gaps(r, s)
        BY <2>4, <3>1 DEF Gaps
    <3> QED
        BY <1>4, <1>6, <3>2, LostFirst
  <2>5. CASE t >= r.seq /\ t # s /\ r.slot[(t - 1) % Cap] # NULL
    <3>1. c.extra < c.seq
        BY AfterExtra DEF QueueShape
    <3>2. t \in c.extra + 1 .. c.extra + Cap
        BY <1>3, <1>4, <2>1, <2>5, <3>1
    <3>3. c.slot[(t - 1) % Cap] = t
        BY <1>3, <2>5, <3>2, SlotHolds DEF QueueShape
    <3> QED
        BY <1>2, <2>1, <3>3 DEF At
  <2> QED
      BY <1>4, <2>1, <2>2, <2>3, <2>4, <2>5
<1> HIDE DEF l
<1>7. a \in AckMsg /\ a.kind = "disorder" /\ a.seq = s /\ a.extra = r.seq - 1 /\ a.lost = l
    BY <1>4, <1>5, DisorderAckFields
<1> HIDE DEF a
<1>13. At(q, s)
    BY <1>2 DEF At
<1>8. AckSound(q, a)
    BY <1>5, <1>6, <1>7, <1>13 DEF AckSound
<1>9. \A b \in {a} : b \in AckMsg /\ AckSound(q, b) /\ b.extra < q.seq
    BY <1>1, <1>3, <1>4, <1>7, <1>8
<1>10. (s - 1) % Cap = c.head => q.slot[q.head] # NULL
  <2>1. s # NULL
      BY Constants DEF Packet, NULL
  <2> QED
      BY <1>1, <1>2, <2>1
<1>12. q.seq >= c.seq
    BY <1>1, <1>3, <1>4
<1>11. DataResult(c, s, q, {a}, (s - 1) % Cap = c.head)
    BY <1>1, <1>2, <1>9, <1>10, <1>12 DEF DataResult
<1> QED
    BY <1>11 DEF a, l, q, r

\* A packet that fits is never taken for an overrun.
LEMMA Fits ==
    ASSUME NEW r \in Conn, QueueShape(r), NEW s \in Packet, s >= r.seq, s <= r.extra + Cap
    PROVE  ~ Overrun(r, s)
<1>1. r.seq = r.extra + 1 + r.size
    BY HeadTail DEF QueueShape
<1>2. r.seq \in Nat /\ r.extra \in Nat /\ r.size \in Nat /\ Cap \in Nat /\ s \in Nat
    BY ConnType, Constants DEF Packet
<1> QED
    BY <1>1, <1>2 DEF Overrun

\* handleDataPacket on a connection whose queue is in use.
LEMMA DataOpen ==
    ASSUME NEW c \in Conn, QueueShape(c), ~ c.stop, NEW s \in Packet,
           s < c.seq \/ (c.active /\ s <= c.extra + Cap)
    PROVE  LET h == handleDataPacket(c, s) IN DataResult(c, s, h.rx, h.acks, h.wake)
<1> DEFINE r == Met(c, s)
           h == handleDataPacket(c, s)
           i == (s - 1) % Cap
<1>0. SUFFICES DataResult(c, s, h.rx, h.acks, h.wake)
    OBVIOUS
<1>1. /\ r \in Conn
      /\ r.seq = c.seq /\ r.extra = c.extra /\ r.slot = c.slot /\ r.head = c.head
      /\ r.size = c.size /\ r.stop = c.stop /\ r.active = c.active
    BY MetFields
<1>2. QueueShape(r)
    BY MetShape
<1>3. c.seq \in Nat /\ s \in Nat /\ c.extra \in Nat
    BY ConnType, Constants DEF Packet
<1>4. CASE s < c.seq
  <2>1. h = [rx |-> r, acks |-> {DataAck(r)}, wake |-> FALSE]
      BY <1>1, <1>3, <1>4 DEF handleDataPacket, Met
  <2>2. h.rx = r /\ h.acks = {DataAck(r)} /\ h.wake = FALSE
      BY <2>1
  <2>3. DataResult(c, s, r, {DataAck(r)}, FALSE)
      BY DataOld
  <2> HIDE DEF h, r
  <2> QED
      BY <2>2, <2>3, Zenon
<1>5. CASE ~ (s < c.seq)
  <2>1. s >= c.seq /\ c.active /\ s <= c.extra + Cap
      BY <1>3, <1>5
  <2>2. ~ Overrun(r, s)
      BY <1>1, <1>2, <2>1, Fits
  <2>3. h = IF Overrun(r, s) THEN [rx |-> r, acks |-> {}, wake |-> FALSE]
            ELSE IF r.slot[i] # NULL
            THEN [rx |-> r, acks |-> {DuplicateAck(s, r.seq - 1)}, wake |-> FALSE]
            ELSE IF i = QTail(r)
            THEN [rx |-> MoveTail(PutSlot(r, s)), acks |-> {DataAck(MoveTail(PutSlot(r, s)))},
                  wake |-> i = r.head]
            ELSE [rx |-> PutSlot(r, s), acks |-> {DisorderAck(s, r.seq - 1, Lost(r, s))},
                  wake |-> i = r.head]
      BY <1>1, <1>5, <2>1 DEF handleDataPacket, Met
  <2>4. CASE r.slot[i] # NULL
    <3>1. h = [rx |-> r, acks |-> {DuplicateAck(s, r.seq - 1)}, wake |-> FALSE]
        BY <2>2, <2>3, <2>4
    <3>2. c.extra < c.seq
        BY AfterExtra DEF QueueShape
    <3>3. s > c.extra
        BY <1>3, <2>1, <3>2
    <3>4. DataResult(c, s, r, {DuplicateAck(s, r.seq - 1)}, FALSE)
        BY <1>1, <2>1, <2>4, <3>3, DataDuplicate
    <3>5. h.rx = r /\ h.acks = {DuplicateAck(s, r.seq - 1)} /\ h.wake = FALSE
        BY <3>1
    <3> HIDE DEF h, r
    <3> QED
        BY <3>4, <3>5, Zenon
  <2>5. CASE r.slot[i] = NULL /\ i = QTail(r)
    <3> DEFINE m == MoveTail(PutSlot(r, s))
    <3>1. h = [rx |-> m, acks |-> {DataAck(m)}, wake |-> i = c.head]
        BY <1>1, <2>2, <2>3, <2>5
    <3>2. DataResult(c, s, m, {DataAck(m)}, i = c.head)
        BY <1>1, <2>1, <2>5, DataTail
    <3> HIDE DEF m
    <3>3. h.rx = m /\ h.acks = {DataAck(m)} /\ h.wake = (i = c.head)
        BY <3>1
    <3> HIDE DEF h
    <3> QED
        BY <3>2, <3>3, Zenon
  <2>6. CASE r.slot[i] = NULL /\ i # QTail(r)
    <3> DEFINE q == PutSlot(r, s)
               as == {DisorderAck(s, r.seq - 1, Lost(r, s))}
    <3>1. h = [rx |-> q, acks |-> as, wake |-> i = c.head]
        BY <1>1, <2>2, <2>3, <2>6
    <3>2. DataResult(c, s, q, as, i = c.head)
        BY <1>1, <2>1, <2>6, DataGap
    <3> HIDE DEF q, as
    <3>3. h.rx = q /\ h.acks = as /\ h.wake = (i = c.head)
        BY <3>1
    <3> HIDE DEF h
    <3> QED
        BY <3>2, <3>3, Zenon
  <2> QED
      BY <2>4, <2>5, <2>6
<1> QED
    BY <1>4, <1>5

\* What handleDataPacket promises of a connection that wants no data.
ClosedResult(c, s, x, as, w) ==
    /\ x \in Conn
    /\ x.extra = c.extra /\ x.slot = c.slot /\ x.head = c.head /\ x.stop = c.stop
    /\ x.active => c.active
    /\ x.seq = c.seq \/ x.seq = s
    /\ ~ w
    /\ \A a \in as : a \in AckMsg /\ (a.extra = s \/ a.extra = c.extra)

\* handleDataPacket on a connection that wants no data.
LEMMA DataClosed ==
    ASSUME NEW c \in Conn, NEW s \in Packet, c.stop \/ ~ c.active
    PROVE  LET h == handleDataPacket(c, s) IN ClosedResult(c, s, h.rx, h.acks, h.wake)
<1> DEFINE r == Met(c, s)
           h == handleDataPacket(c, s)
           n == Max({r.seq, s})
           past == [r EXCEPT !.seq = n]
<1>0. SUFFICES ClosedResult(c, s, h.rx, h.acks, h.wake)
    OBVIOUS
<1>1. /\ r \in Conn
      /\ r.seq = c.seq /\ r.extra = c.extra /\ r.slot = c.slot /\ r.head = c.head
      /\ r.size = c.size /\ r.stop = c.stop /\ r.active = c.active
    BY MetFields
<1> HIDE DEF r, h
<1>2. /\ r.seq \in Nat /\ s \in Nat /\ r.extra \in 0 .. Last /\ r.seq - 1 \in 0 .. Last
      /\ s \in 1 .. Last + 1 /\ r.seq \in 1 .. Last + 1 /\ s \in 0 .. Last
    BY <1>1, ConnType, Constants DEF Packet
<1>12. r.stop \in BOOLEAN /\ r.active \in BOOLEAN /\ r.eos \in BOOLEAN
    BY <1>1, ConnType
<1>3. n = IF r.seq >= s THEN r.seq ELSE s
    BY <1>2, MaxPair
<1> HIDE DEF n
<1>4. /\ n \in 1 .. Last + 1
      /\ n = c.seq \/ n = s
    BY <1>1, <1>2, <1>3
<1>5. /\ Ack(s, s, TRUE) \in AckMsg /\ Ack(s, s, TRUE).extra = s
      /\ DataAck(r) \in AckMsg /\ DataAck(r).extra = c.extra
  <2>1. TRUE \in BOOLEAN
      OBVIOUS
  <2>2. Ack(s, s, TRUE) \in AckMsg /\ Ack(s, s, TRUE).extra = s
      BY <1>2, <2>1, AckFields, Zenon
  <2>3. /\ Ack(r.seq - 1, r.extra, r.stop) \in AckMsg
        /\ Ack(r.seq - 1, r.extra, r.stop).extra = r.extra
    <3> DEFINE k == r.seq - 1
               e == r.extra
               b == r.stop
    <3>1. k \in 0 .. Last /\ e \in 0 .. Last /\ b \in BOOLEAN
        BY <1>2, <1>12
    <3> HIDE DEF k, e, b
    <3>2. Ack(k, e, b) \in AckMsg /\ Ack(k, e, b).extra = e
        BY <3>1, AckFields, Zenon
    <3> QED
        BY <3>2 DEF k, e, b
  <2> QED
      BY <1>1, <2>2, <2>3 DEF DataAck
<1>6. CASE c.stop /\ c.active
  <2> DEFINE b == r.eos \/ s = Last
             v == s # Last
             x == [r EXCEPT !.seq = n, !.eos = b, !.active = v]
  <2>1. h = [rx |-> [past EXCEPT !.eos = @ \/ s = Last, !.active = s # Last],
             acks |-> {Ack(s, s, TRUE)}, wake |-> FALSE]
      BY <1>1, <1>6 DEF handleDataPacket, Met, h, r, n, past
  <2>2. b \in BOOLEAN /\ v \in BOOLEAN
      OBVIOUS
  <2>3. [past EXCEPT !.eos = @ \/ s = Last, !.active = s # Last] = x
      BY <1>1 DEF Conn
  <2>6. x = [r EXCEPT !.seq = n, !.eos = b, !.active = v]
      OBVIOUS
  <2> HIDE DEF b, v, x
  <2>4. /\ x \in Conn
        /\ x.seq = n /\ x.extra = r.extra /\ x.slot = r.slot /\ x.head = r.head
        /\ x.stop = r.stop
      BY <1>1, <1>4, <2>2, <2>6 DEF Conn
  <2>5. h.rx = x /\ h.acks = {Ack(s, s, TRUE)} /\ h.wake = FALSE
      BY <2>1, <2>3
  <2> QED
      BY <1>1, <1>4, <1>5, <1>6, <2>4, <2>5, Zenon DEF ClosedResult
<1>7. CASE ~ (c.stop /\ c.active) /\ s < c.seq
  <2>1. h = [rx |-> r, acks |-> {DataAck(r)}, wake |-> FALSE]
      BY <1>1, <1>2, <1>7 DEF handleDataPacket, Met, h, r, n, past
  <2>5. h.rx = r /\ h.acks = {DataAck(r)} /\ h.wake = FALSE
      BY <2>1
  <2> QED
      BY <1>1, <1>5, <1>7, <2>5, Zenon DEF ClosedResult
<1>8. CASE ~ (c.stop /\ c.active) /\ ~ (s < c.seq)
  <2>0. ~ c.active /\ s >= c.seq
      BY <1>1, <1>2, <1>8
  <2>1. h = [rx |-> past, acks |-> {Ack(s, s, TRUE)}, wake |-> FALSE]
      BY <1>1, <1>8, <2>0 DEF handleDataPacket, Met, h, r, n, past
  <2> DEFINE b == r.eos
             v == r.active
  <2>3. past = [r EXCEPT !.seq = n, !.eos = b, !.active = v]
      BY <1>1 DEF Conn
  <2>2. b \in BOOLEAN /\ v \in BOOLEAN
      BY <1>12
  <2> HIDE DEF b, v, past
  <2>4. /\ past \in Conn
        /\ past.seq = n /\ past.extra = r.extra /\ past.slot = r.slot
        /\ past.head = r.head /\ past.stop = r.stop /\ past.active = r.active
      BY <1>1, <1>4, <2>2, <2>3 DEF Conn, v
  <2>5. h.rx = past /\ h.acks = {Ack(s, s, TRUE)} /\ h.wake = FALSE
      BY <2>1
  <2> QED
      BY <1>1, <1>4, <1>5, <2>0, <2>4, <2>5, Zenon DEF ClosedResult
<1> QED
    BY <1>6, <1>7, <1>8

-----------------------------------------------------------------------------
(* The sender                                                              *)

\* Packets that were sent can be counted.
LEMMA SentSetFinite ==
    ASSUME NEW n \in Nat, NEW u \in SUBSET (1 .. n)
    PROVE  Cardinality(u) \in Nat
<1>1. IsFiniteSet(1 .. n)
    BY FS_Interval
<1>2. IsFiniteSet(u)
    BY <1>1, FS_Subset
<1> QED
    BY <1>2, FS_CardinalityType

\* sendBuffers sends from the queue, in order, and no more than the capacity.
LEMMA SendResult ==
    ASSUME NEW n \in Nat, NEW u \in SUBSET (1 .. sentSeq), NEW cap \in Nat,
           NEW resent \in SUBSET (1 .. sentSeq), sentSeq \in 0 .. n - 1, data \subseteq 1 .. sentSeq,
           sendBuffers(n, u, cap, resent)
    PROVE  /\ sentSeq' \in sentSeq .. n - 1
           /\ capacity' \in Nat
           /\ capacity' + sentSeq' = cap + sentSeq
           /\ u \subseteq unack'
           /\ unack' \subseteq 1 .. sentSeq'
           /\ \A s \in 1 .. sentSeq' : s \in 1 .. sentSeq \/ s \in unack'
           /\ data' \subseteq 1 .. sentSeq'
<1> DEFINE q == n - 1 - sentSeq
           queued == Min({cap, q})
           d == 1 - Cardinality(u)
           m == Min({queued, d})
<1>0. sentSeq \in Nat /\ q \in Nat
    OBVIOUS
<1>1. Cardinality(u) \in Nat
    BY <1>0, SentSetFinite
<1> HIDE DEF q
<1>2. queued = IF cap <= q THEN cap ELSE q
    BY <1>0, MinPair
<1> HIDE DEF queued
<1>3. queued \in Int /\ queued <= cap /\ queued <= q
    BY <1>0, <1>2
<1>4. d \in Int
    BY <1>1
<1> HIDE DEF d
<1>5. m = IF queued <= d THEN queued ELSE d
    BY <1>3, <1>4, MinPair
<1> HIDE DEF m
<1>6. m \in Int /\ m <= queued
    BY <1>3, <1>4, <1>5
<1>7. PICK k \in SendCount(n, u, cap) :
        /\ sentSeq' = sentSeq + k
        /\ unack' = u \cup (sentSeq + 1 .. sentSeq + k)
        /\ capacity' = cap - k
        /\ data' = data \cup resent \cup (sentSeq + 1 .. sentSeq + k)
    BY DEF sendBuffers
<1>8. k \in 0 .. IF Started(u) THEN queued ELSE m
    BY <1>7 DEF SendCount, m, queued, d, q
<1>9. k \in Nat /\ k <= cap /\ k <= q
    BY <1>0, <1>3, <1>6, <1>8
<1>10. sentSeq + k <= n - 1
    BY <1>0, <1>9 DEF q
<1> QED
    BY <1>0, <1>7, <1>9, <1>10

\* The highest acknowledged packet was sent.
LEMMA AckedSent ==
    ASSUME NEW freed, freed \subseteq unack, unack \subseteq 1 .. sentSeq, sentSeq \in Nat,
           receivedAckSeq \in 0 .. sentSeq
    PROVE  AckedAfter(freed) \in 0 .. sentSeq
<1> DEFINE S == {receivedAckSeq} \cup {s \in freed : \A u \in unack : u < s => u \in freed}
<1>3. receivedAckSeq \in S /\ \A x \in S : x = receivedAckSeq \/ x \in freed
    BY Zenon
<1>4. AckedAfter(freed) = Max(S)
    BY DEF AckedAfter
<1> HIDE DEF S
<1>1. S \in SUBSET (0 .. sentSeq) /\ S # {}
    BY <1>3
<1>2. Max(S) \in S
    BY <1>1, MaxFact
<1> QED
    BY <1>1, <1>2, <1>4

\* What an ack in flight says stays true.
LEMMA AckSoundStays ==
    ASSUME NEW r \in Conn, NEW x \in Conn, NEW a \in AckMsg, AckSound(r, a),
           x.extra >= r.extra, x.seq >= r.seq, \A t \in Packet : At(r, t) => At(x, t)
    PROVE  AckSound(x, a)
<1>1. /\ r.extra \in Nat /\ x.extra \in Nat /\ r.seq \in Nat /\ x.seq \in Nat
    BY ConnType, Constants
<1>2. a.seq \in 0 .. Last /\ a.extra \in 0 .. Last
    BY DEF AckMsg
<1>3. CASE a.kind = "ack"
    BY <1>1, <1>2, <1>3, Constants DEF AckSound
<1>4. CASE a.kind = "dup"
  <2>1. a.extra < x.seq
      BY <1>1, <1>2, <1>4, Constants DEF AckSound
  <2>2. At(r, a.seq)
      BY <1>4 DEF AckSound
  <2>3. At(x, a.seq)
    <3>1. CASE a.seq = 0
        BY <1>1, <3>1 DEF At
    <3>2. CASE a.seq # 0
      <4>1. a.seq \in Packet
          BY <1>2, <3>2, Constants DEF Packet
      <4> QED
          BY <2>2, <4>1
    <3> QED
        BY <3>1, <3>2
  <2> QED
      BY <1>4, <2>1, <2>3 DEF AckSound
<1>5. CASE a.kind = "disorder"
  <2>1. /\ a.lost \subseteq 1 .. a.seq - 1 /\ At(r, a.seq)
        /\ \A l \in a.lost, s \in 1 .. a.seq : s < l => s \in a.lost \/ At(r, s)
      BY <1>5 DEF AckSound
  <2>2. \A s \in 1 .. a.seq : s \in Packet
      BY <1>2, Constants DEF Packet
  <2>3. \A l \in a.lost, s \in 1 .. a.seq : s < l => s \in a.lost \/ At(x, s)
      BY <2>1, <2>2
  <2>4. At(x, a.seq)
    <3>1. CASE a.seq = 0
        BY <1>1, <3>1 DEF At
    <3>2. CASE a.seq # 0
      <4>1. a.seq \in Packet
          BY <1>2, <3>2, Constants DEF Packet
      <4> QED
          BY <2>1, <4>1
    <3> QED
        BY <3>1, <3>2
  <2> QED
      BY <1>5, <2>1, <2>3, <2>4 DEF AckSound
<1>6. a.kind \in {"ack", "dup", "disorder"}
    BY DEF AckMsg
<1> QED
    BY <1>3, <1>4, <1>5, <1>6

\* The parts of the invariant that a step of the sender leaves alone.
LEMMA SenderKeeps ==
    ASSUME IcInv, UNCHANGED rcv, acks' \subseteq acks
    PROVE  MainInv' /\ AckInv' /\ (Open' = Open)
<1>1. rx' = rx /\ life' = life /\ main' = main
    BY DEF rcv
<1>2. Open' = Open
    BY <1>1 DEF Open
<1>3. MainInv'
    BY <1>1 DEF IcInv, MainInv, Open
<1>4. AckInv'
    BY <1>1 DEF IcInv, AckInv, Open
<1> QED
    BY <1>2, <1>3, <1>4

\* A step that sends: next' = n packets are prepared, u stay outstanding, of
\* what is freed the receiver has every packet, and cap is the capacity that
\* was given back.
LEMMA SendInv ==
    ASSUME IcInv, UNCHANGED rcv, query' = query, losses' = losses, acks' \subseteq acks,
           phase # "done", phase' \in {"fill", "buf", "eos"},
           NEW n \in next .. Last + 1, next' = n,
           NEW u \in SUBSET unack, NEW cap \in Nat, NEW resent \in SUBSET unack,
           sendBuffers(n, u, cap, resent),
           Open => \A s \in unack : s \in u \/ At(rx, s),
           consumedSeq' \in 0 .. n - 1, cap + sentSeq = consumedSeq' + Cap,
           Open => consumedSeq' <= rx.extra,
           receivedAckSeq' \in 0 .. sentSeq,
           stopReq' \in BOOLEAN, stopReq' => ~ Open,
           disorder' \in [lastSeq : 0 .. Last, times : 0 .. 3]
    PROVE  IcInv'
<1>1. /\ next \in 1 .. Last + 1 /\ sentSeq \in 0 .. next - 1 /\ unack \subseteq 1 .. sentSeq
      /\ data \subseteq 1 .. sentSeq /\ cached \subseteq 1 .. sentSeq
    BY DEF IcInv, TypeOK, SentInv
<1>2. /\ sentSeq \in Nat /\ next \in Nat /\ n \in Nat /\ Last \in Nat /\ Cap \in Nat
      /\ sentSeq \in 0 .. n - 1 /\ n <= Last + 1 /\ next <= n
    BY <1>1, Constants
<1>3. /\ sentSeq' \in sentSeq .. n - 1
      /\ capacity' \in Nat
      /\ capacity' + sentSeq' = cap + sentSeq
      /\ u \subseteq unack'
      /\ unack' \subseteq 1 .. sentSeq'
      /\ \A s \in 1 .. sentSeq' : s \in 1 .. sentSeq \/ s \in unack'
      /\ data' \subseteq 1 .. sentSeq'
  <2>1. u \in SUBSET (1 .. sentSeq) /\ resent \in SUBSET (1 .. sentSeq)
      BY <1>1
  <2> QED
      BY <1>1, <1>2, <2>1, SendResult
<1>4. sentSeq' \in Nat /\ sentSeq <= sentSeq' /\ sentSeq' <= n - 1
    BY <1>2, <1>3
<1>5. MainInv' /\ AckInv' /\ (Open' = Open)
    BY SenderKeeps
<1>6. /\ rx' = rx /\ life' = life /\ main' = main /\ cached' = cached /\ query' = query
    BY DEF rcv
<1>7. TypeOK'
  <2>1. next' \in 1 .. Last + 1 /\ sentSeq' \in 0 .. next' - 1 /\ unack' \subseteq 1 .. sentSeq'
      BY <1>1, <1>2, <1>3, <1>4
  <2>2. capacity' \in 0 .. Cap + Last
    <3>1. consumedSeq' \in Nat /\ consumedSeq' <= Last
        BY <1>2
    <3>2. capacity' \in Nat /\ capacity' + sentSeq' = consumedSeq' + Cap
        BY <1>3
    <3> QED
        BY <1>2, <1>4, <3>1, <3>2
  <2>3. consumedSeq' \in 0 .. next' - 1 /\ receivedAckSeq' \in 0 .. sentSeq'
      BY <1>2, <1>4
  <2>4. data' \subseteq Packet
      BY <1>2, <1>3, <1>4 DEF Packet
  <2>5. acks' \subseteq AckMsg
      BY DEF IcInv, TypeOK
  <2>6. /\ life' \in {"start", "up", "torn"} /\ cached' \subseteq 1 .. Cap /\ rx' \in Conn
        /\ main' \in {"idle", "wait", "ready", "put"} /\ query' \in 0 .. Last
        /\ losses' \in 0 .. MaxLoss
      BY <1>6 DEF IcInv, TypeOK
  <2>7. phase' \in {"fill", "buf", "eos", "done"}
      OBVIOUS
  <2> QED
      BY <2>1, <2>2, <2>3, <2>4, <2>5, <2>6, <2>7 DEF TypeOK
<1>8. SentInv'
  <2>1. cached' \subseteq 1 .. sentSeq'
      BY <1>1, <1>2, <1>4, <1>6
  <2>2. /\ rx.seq \in Nat /\ rx.extra \in Nat /\ rx.seq <= sentSeq + 1 /\ rx.extra <= sentSeq
        /\ query \in Nat /\ query <= next - 1
      BY Constants, ConnType DEF IcInv, TypeOK, SentInv
  <2>3. rx'.seq <= sentSeq' + 1 /\ rx'.extra <= sentSeq' /\ query' <= next' - 1
      BY <1>2, <1>4, <1>6, <2>2
  <2>4. ASSUME NEW p \in 0 .. Cap - 1 PROVE rx'.slot[p] <= sentSeq'
    <3>1. rx.slot[p] \in Nat
        BY Constants, ConnType DEF IcInv, TypeOK, Packet, NULL
    <3>2. rx.slot[p] <= sentSeq
        BY DEF IcInv, SentInv
    <3> QED
        BY <1>2, <1>4, <1>6, <3>1, <3>2
  <2>5. ASSUME NEW a \in acks' PROVE a.extra <= next' - 1
    <3>1. a \in acks /\ a.extra \in Nat
        BY Constants DEF IcInv, TypeOK, AckMsg
    <3>2. a.extra <= next - 1
        BY <3>1 DEF IcInv, SentInv
    <3> QED
        BY <1>2, <3>1, <3>2
  <2> QED
      BY <1>3, <2>1, <2>3, <2>4, <2>5 DEF SentInv
<1>9. FlowInv'
  <2>1. capacity' + sentSeq' = consumedSeq' + Cap
      BY <1>3
  <2>2. ASSUME Open PROVE sentSeq' <= rx.extra + Cap
    <3>1. consumedSeq' <= rx.extra /\ consumedSeq' \in Nat
        BY <2>2, <1>2
    <3>2. rx.extra \in Nat
        BY Constants, ConnType DEF IcInv, TypeOK
    <3> QED
        BY <1>2, <1>3, <1>4, <2>1, <3>1, <3>2
  <2> QED
      BY <1>5, <1>6, <2>1, <2>2 DEF FlowInv
<1>10. NothingLost'
  <2>1. ASSUME Open, NEW s \in 1 .. sentSeq' PROVE s \in unack' \/ At(rx, s)
    <3>1. CASE s \in unack'
        BY <3>1
    <3>2. CASE s \in 1 .. sentSeq
      <4>1. s \in unack \/ At(rx, s)
          BY <2>1, <3>2 DEF IcInv, NothingLost, Open, At
      <4> QED
          BY <1>3, <2>1, <4>1
    <3> QED
        BY <1>3, <3>1, <3>2
  <2>2. Open' => \A s \in 1 .. sentSeq' : s \in unack' \/ At(rx', s)
      BY <1>5, <1>6, <2>1
  <2> QED
      BY <2>2 DEF NothingLost, Open, At
<1> QED
    BY <1>5, <1>7, <1>8, <1>9, <1>10 DEF IcInv

\* The sender leaves with everything acknowledged, or because the receiver stopped.
LEMMA LeaveInv ==
    ASSUME IcInv, Leave, UNCHANGED <<next, rcv, data, query, losses>>,
           Open => unack = {} /\ sndQueue = {}
    PROVE  IcInv'
<1>1. /\ next \in 1 .. Last + 1 /\ sentSeq \in 0 .. next - 1
      /\ data \subseteq 1 .. sentSeq /\ cached \subseteq 1 .. sentSeq
    BY DEF IcInv, TypeOK, SentInv
<1>2. /\ sentSeq \in Nat /\ next \in Nat /\ Last \in Nat /\ Cap \in Nat
      /\ next' = next /\ sentSeq' = next - 1 /\ sentSeq' \in Nat /\ sentSeq <= sentSeq'
      /\ unack' = {}
    BY <1>1, Constants DEF Leave
<1>3. /\ rx' = rx /\ life' = life /\ main' = main /\ cached' = cached /\ query' = query
      /\ data' = data /\ losses' = losses /\ acks' = {}
    BY DEF rcv, Leave
<1>4. MainInv' /\ AckInv' /\ (Open' = Open)
    BY <1>3, SenderKeeps
<1>5. TypeOK'
  <2>1. next' \in 1 .. Last + 1 /\ sentSeq' \in 0 .. next' - 1 /\ unack' \subseteq 1 .. sentSeq'
      BY <1>1, <1>2
  <2>2. /\ capacity' \in 0 .. Cap + Last
        /\ consumedSeq' \in 0 .. next' - 1 /\ receivedAckSeq' \in 0 .. sentSeq'
      BY <1>1, <1>2 DEF Leave
  <2>3. disorder' \in [lastSeq : 0 .. Last, times : 0 .. 3]
      BY <1>2 DEF Leave
  <2>4. stopReq' \in BOOLEAN /\ phase' \in {"fill", "buf", "eos", "done"}
      BY DEF Leave
  <2>5. /\ life' \in {"start", "up", "torn"} /\ cached' \subseteq 1 .. Cap /\ rx' \in Conn
        /\ main' \in {"idle", "wait", "ready", "put"} /\ query' \in 0 .. Last
        /\ losses' \in 0 .. MaxLoss /\ data' \subseteq Packet /\ acks' \subseteq AckMsg
      BY <1>3 DEF IcInv, TypeOK
  <2> QED
      BY <2>1, <2>2, <2>3, <2>4, <2>5 DEF TypeOK
<1>6. SentInv'
  <2>1. cached' \subseteq 1 .. sentSeq' /\ data' \subseteq 1 .. sentSeq'
      BY <1>1, <1>2, <1>3
  <2>2. /\ rx.seq \in Nat /\ rx.extra \in Nat /\ rx.seq <= sentSeq + 1 /\ rx.extra <= sentSeq
        /\ query \in Nat /\ query <= next - 1
      BY Constants, ConnType DEF IcInv, TypeOK, SentInv
  <2>3. rx'.seq <= sentSeq' + 1 /\ rx'.extra <= sentSeq' /\ query' <= next' - 1
      BY <1>2, <1>3, <2>2
  <2>4. ASSUME NEW p \in 0 .. Cap - 1 PROVE rx'.slot[p] <= sentSeq'
    <3>1. rx.slot[p] \in Nat
        BY Constants, ConnType DEF IcInv, TypeOK, Packet, NULL
    <3>2. rx.slot[p] <= sentSeq
        BY DEF IcInv, SentInv
    <3> QED
        BY <1>2, <1>3, <3>1, <3>2
  <2> QED
      BY <1>3, <2>1, <2>3, <2>4 DEF SentInv
<1>7. ASSUME Open PROVE sentSeq' = sentSeq
    BY <1>1, <1>2, <1>7 DEF sndQueue
<1>8. FlowInv'
  <2>1. ASSUME Open PROVE sentSeq' <= rx.extra + Cap /\ consumedSeq' <= rx.extra
    <3>1. rx.extra \in Nat
        BY Constants, ConnType DEF IcInv, TypeOK
    <3>2. sentSeq <= rx.extra + Cap
        BY <2>1 DEF IcInv, FlowInv
    <3> QED
        BY <1>7, <2>1, <3>1, <3>2 DEF Leave
  <2> QED
      BY <1>3, <1>4, <2>1 DEF FlowInv, Leave
<1>9. NothingLost'
  <2>1. ASSUME Open, NEW s \in 1 .. sentSeq' PROVE At(rx, s)
      BY <1>7, <2>1 DEF IcInv, NothingLost, Open, At
  <2>2. Open' => \A s \in 1 .. sentSeq' : s \in unack' \/ At(rx', s)
      BY <1>3, <1>4, <2>1
  <2> QED
      BY <2>2 DEF NothingLost, Open, At
<1> QED
    BY <1>4, <1>5, <1>6, <1>8, <1>9 DEF IcInv

\* SendChunk and the EOS packet.
LEMMA SendChunkInv == IcInv /\ (SendChunk \/ SendEOS) => IcInv'
<1> SUFFICES ASSUME IcInv, SendChunk \/ SendEOS PROVE IcInv'
    OBVIOUS
<1> DEFINE n == next + 1
<1>1. /\ UNCHANGED rcv /\ query' = query /\ losses' = losses /\ acks' \subseteq acks
      /\ phase # "done" /\ phase' \in {"fill", "buf", "eos"} /\ next' = n
      /\ sendBuffers(n, unack, capacity, {})
      /\ consumedSeq' = consumedSeq /\ receivedAckSeq' = receivedAckSeq /\ stopReq' = stopReq
      /\ disorder' = disorder
    BY DEF SendChunk, SendEOS, ctl
<1>2. n \in next .. Last + 1 /\ consumedSeq' \in 0 .. n - 1
  <2>1. next \in 1 .. Last + 1 /\ next <= Last /\ consumedSeq \in 0 .. next - 1
      BY Constants DEF SendChunk, SendEOS, IcInv, TypeOK
  <2> QED
      BY <1>1, <2>1, Constants
<1>3. /\ unack \in SUBSET unack /\ {} \in SUBSET unack /\ capacity \in Nat
      /\ receivedAckSeq' \in 0 .. sentSeq
      /\ disorder' \in [lastSeq : 0 .. Last, times : 0 .. 3]
    BY <1>1, Constants DEF IcInv, TypeOK
<1>4. stopReq' \in BOOLEAN /\ (stopReq' => ~ Open)
    BY <1>1 DEF IcInv, TypeOK, FlowInv
<1>5. /\ capacity + sentSeq = consumedSeq' + Cap
      /\ Open => consumedSeq' <= rx.extra
    BY <1>1 DEF IcInv, FlowInv
<1> HIDE DEF n
<1> QED
    BY <1>1, <1>2, <1>3, <1>4, <1>5, SendInv

\* The sender gets a buffer, serves a stop, or is through.
LEMMA SenderWaitInv == IcInv /\ (GetBuffer \/ SendEOSDone) => IcInv'
<1> SUFFICES ASSUME IcInv, GetBuffer \/ SendEOSDone PROVE IcInv'
    OBVIOUS
<1>1. CASE GetBuffer /\ stopReq
  <2>1. Leave /\ UNCHANGED <<next, rcv, data, query, losses>>
      BY <1>1 DEF GetBuffer
  <2>2. ~ Open
      BY <1>1 DEF IcInv, FlowInv
  <2> QED
      BY <2>1, <2>2, LeaveInv
<1>2. CASE GetBuffer /\ ~ stopReq
  <2>1. /\ phase = "buf" /\ phase' = "fill"
        /\ UNCHANGED <<sentSeq, unack, capacity, consumedSeq, receivedAckSeq, stopReq, disorder,
                       acks, next, rcv, data, query, losses>>
      BY <1>2 DEF GetBuffer, ctl
  <2>2. MainInv' /\ AckInv' /\ (Open' = Open)
      BY <2>1, SenderKeeps
  <2>3. TypeOK'
      BY <2>1 DEF IcInv, TypeOK, rcv
  <2>4. SentInv'
      BY <2>1 DEF IcInv, SentInv, rcv
  <2>5. FlowInv'
      BY <2>1 DEF IcInv, FlowInv, rcv, Open
  <2>6. NothingLost'
      BY <2>1 DEF IcInv, NothingLost, rcv
  <2> QED
      BY <2>2, <2>3, <2>4, <2>5, <2>6 DEF IcInv
<1>3. CASE SendEOSDone
    BY <1>3, LeaveInv DEF SendEOSDone
<1> QED
    BY <1>1, <1>2, <1>3

\* What HandleAck frees.
Freed(a) ==
    CASE a.kind = "ack" -> IF a.seq > receivedAckSeq THEN {s \in unack : s <= a.seq} ELSE {}
      [] a.kind = "dup" -> FreedByDuplicate(a)
      [] a.kind = "disorder" ->
            IF a.kind = "disorder" /\ DisorderActs(a) THEN FreedByDisorder(a) ELSE {}

\* A packet is freed only when the receiver has it.
LEMMA FreedIsThere ==
    ASSUME IcInv, NEW a \in acks
    PROVE  /\ Freed(a) \subseteq unack
           /\ Open => \A s \in Freed(a) : At(rx, s)
<1>1. /\ a \in AckMsg /\ unack \subseteq 1 .. sentSeq /\ sentSeq \in Nat /\ rx \in Conn
    BY Constants DEF IcInv, TypeOK
<1>2. a.seq \in Nat /\ a.extra \in Nat /\ rx.seq \in Nat
    BY <1>1, ConnType, Constants DEF AckMsg
<1>3. a.kind \in {"ack", "dup", "disorder"}
    BY <1>1 DEF AckMsg
<1>4. ASSUME Open
      PROVE  AckSound(rx, a) /\ \A t \in Nat : t < rx.seq => At(rx, t)
  <2>1. QueueWindow(rx)
      BY <1>4 DEF IcInv, MainInv, QueueShape
  <2> QED
      BY <1>1, <1>4, <2>1, BeforeSeq DEF IcInv, AckInv
<1>5. CASE a.kind = "ack"
  <2>1. Freed(a) \subseteq {s \in unack : s <= a.seq}
      BY <1>5 DEF Freed
  <2>2. ASSUME Open, NEW s \in Freed(a) PROVE At(rx, s)
    <3>3. s \in unack /\ s <= a.seq
        BY <2>1, Zenon
    <3>4. a.seq < rx.seq
        BY <1>4, <1>5, <2>2 DEF AckSound
    <3>1. s \in Nat /\ s <= a.seq /\ a.seq < rx.seq
        BY <1>1, <3>3, <3>4
    <3>2. s < rx.seq
        BY <1>2, <3>1
    <3> QED
        BY <1>4, <2>2, <3>1, <3>2
  <2> QED
      BY <2>1, <2>2
<1>6. CASE a.kind = "dup"
  <2>1. Freed(a) \subseteq {s \in unack : s <= a.extra \/ s = a.seq}
      BY <1>6 DEF Freed, FreedByDuplicate
  <2>2. ASSUME Open, NEW s \in Freed(a) PROVE At(rx, s)
    <3>4. s \in unack /\ (s <= a.extra \/ s = a.seq)
        BY <2>1, Zenon
    <3>1. s \in Nat /\ (s <= a.extra \/ s = a.seq)
        BY <1>1, <3>4
    <3>2. a.extra < rx.seq /\ At(rx, a.seq)
        BY <1>4, <1>6, <2>2 DEF AckSound
    <3>3. CASE s <= a.extra
      <4>1. s < rx.seq
          BY <1>2, <3>1, <3>2, <3>3
      <4> QED
          BY <1>4, <2>2, <3>1, <4>1
    <3> QED
        BY <3>1, <3>2, <3>3
  <2> QED
      BY <2>1, <2>2
<1>7. CASE a.kind = "disorder"
  <2>1. Freed(a) \subseteq FreedByDisorder(a)
      BY <1>7 DEF Freed
  <2>2. \A s \in FreedByDisorder(a) : s \in unack \ a.lost /\ ((\E l \in a.lost : s < l) \/ s = a.seq)
      BY DEF FreedByDisorder
  <2>3. ASSUME Open, NEW s \in Freed(a) PROVE At(rx, s)
    <3>1. /\ s \in unack /\ s \notin a.lost
          /\ (\E l \in a.lost : s < l) \/ s = a.seq
        BY <2>1, <2>2
    <3>2. s \in Nat /\ s >= 1
        BY <1>1, <3>1
    <3>3. /\ a.lost \subseteq 1 .. a.seq - 1 /\ At(rx, a.seq)
          /\ \A l \in a.lost, t \in 1 .. a.seq : t < l => t \in a.lost \/ At(rx, t)
        BY <1>4, <1>7, <2>3 DEF AckSound
    <3>4. CASE \E l \in a.lost : s < l
      <4>1. PICK l \in a.lost : s < l
          BY <3>4
      <4>2. s \in 1 .. a.seq
          BY <1>2, <3>2, <3>3, <4>1
      <4> QED
          BY <3>1, <3>3, <4>1, <4>2
    <3> QED
        BY <3>1, <3>3, <3>4
  <2> QED
      BY <2>1, <2>2, <2>3
<1> QED
    BY <1>3, <1>5, <1>6, <1>7

\* The counter of reports stays in range.
LEMMA DisorderType ==
    ASSUME TypeOK, NEW a \in AckMsg
    PROVE  (IF a.kind # "disorder" THEN disorder
            ELSE IF a.extra # disorder.lastSeq THEN [lastSeq |-> a.extra, times |-> 0]
            ELSE [disorder EXCEPT !.times = Min({@ + 1, 3})])
               \in [lastSeq : 0 .. Last, times : 0 .. 3]
<1>1. /\ disorder \in [lastSeq : 0 .. Last, times : 0 .. 3] /\ a.extra \in 0 .. Last
    BY DEF TypeOK, AckMsg
<1>2. disorder.times + 1 \in Int /\ 3 \in Int
    BY <1>1
<1>3. Min({disorder.times + 1, 3}) = IF disorder.times + 1 <= 3 THEN disorder.times + 1 ELSE 3
    BY <1>2, MinPair
<1>4. Min({disorder.times + 1, 3}) \in 0 .. 3
    BY <1>1, <1>3
<1>5. [disorder EXCEPT !.times = Min({disorder.times + 1, 3})]
         \in [lastSeq : 0 .. Last, times : 0 .. 3]
    BY <1>1, <1>4
<1>6. [lastSeq |-> a.extra, times |-> 0] \in [lastSeq : 0 .. Last, times : 0 .. 3]
    BY <1>1
<1> QED
    BY <1>1, <1>5, <1>6

\* Acks that raise the capacity, free packets or ask for packets again.
LEMMA HandleAckInv ==
    ASSUME IcInv, NEW a \in acks, HandleAck(a)
    PROVE  IcInv'
<1> DEFINE raise == a.kind = "ack" /\ a.extra > consumedSeq
           cap   == IF raise THEN capacity + a.extra - consumedSeq ELSE capacity
           acts  == a.kind = "disorder" /\ DisorderActs(a)
           resent == IF acts THEN a.lost \cap unack ELSE {}
           u == unack \ Freed(a)
<1>1. /\ a \in AckMsg /\ capacity \in Nat /\ consumedSeq \in 0 .. next - 1 /\ next \in 1 .. Last + 1
      /\ sentSeq \in Nat /\ unack \subseteq 1 .. sentSeq /\ receivedAckSeq \in 0 .. sentSeq
    BY Constants DEF IcInv, TypeOK
<1>2. /\ UNCHANGED rcv /\ query' = query /\ losses' = losses /\ acks' \subseteq acks
      /\ phase # "done" /\ phase' = phase /\ next' = next /\ phase \in {"fill", "buf", "eos"}
    BY DEF HandleAck, Polling
<1>3. /\ consumedSeq' = IF raise THEN a.extra ELSE consumedSeq
      /\ receivedAckSeq' = AckedAfter(Freed(a))
      /\ sendBuffers(next, u, cap, resent)
    BY DEF HandleAck, Freed
<1>4. disorder' \in [lastSeq : 0 .. Last, times : 0 .. 3]
  <2>1. disorder' = IF a.kind # "disorder" THEN disorder
                    ELSE IF a.extra # disorder.lastSeq THEN [lastSeq |-> a.extra, times |-> 0]
                    ELSE [disorder EXCEPT !.times = Min({@ + 1, 3})]
      BY DEF HandleAck
  <2>2. TypeOK
      BY DEF IcInv
  <2> QED
      BY <1>1, <2>1, <2>2, DisorderType
<1>5. stopReq' \in BOOLEAN /\ (stopReq' => ~ Open)
  <2>1. stopReq' = (stopReq \/ (a.kind = "ack" /\ a.stop /\ a.seq >= receivedAckSeq))
      BY DEF HandleAck
  <2>2. Open => ~ stopReq /\ (a.kind = "ack" => ~ a.stop)
      BY DEF IcInv, FlowInv, AckInv, AckSound
  <2> QED
      BY <2>1, <2>2, Zenon
<1>6. Freed(a) \subseteq unack /\ (Open => \A s \in Freed(a) : At(rx, s))
    BY FreedIsThere
<1>7. receivedAckSeq' \in 0 .. sentSeq
    BY <1>1, <1>3, <1>6, AckedSent
<1>8. u \in SUBSET unack /\ resent \in SUBSET unack /\ (Open => \A s \in unack : s \in u \/ At(rx, s))
    BY <1>6
<1>9. a.extra \in Nat /\ a.extra <= next - 1
    BY <1>1, Constants DEF IcInv, SentInv, AckMsg
<1>10. capacity + sentSeq = consumedSeq + Cap /\ (Open => consumedSeq <= rx.extra)
    BY <1>2 DEF IcInv, FlowInv
<1>11. Open /\ a.kind = "ack" => a.extra <= rx.extra
    BY DEF IcInv, AckInv, AckSound
<1>12. cap \in Nat /\ cap + sentSeq = consumedSeq' + Cap /\ consumedSeq' \in 0 .. next - 1
    BY <1>1, <1>3, <1>9, <1>10, Constants
<1>13. Open => consumedSeq' <= rx.extra
    BY <1>3, <1>10, <1>11
<1>14. next \in next .. Last + 1
    BY <1>1, Constants
<1> HIDE DEF u, cap, resent
<1> QED
    BY <1>2, <1>3, <1>4, <1>5, <1>7, <1>8, <1>12, <1>13, <1>14, SendInv

-----------------------------------------------------------------------------
(* The receiver                                                            *)

\* The acks of a receiver's step go to the sender or to nobody.
LEMMA AcksAfter ==
    ASSUME NEW as, ToSender(as), NEW a \in acks'
    PROVE  a \in acks \/ a \in as
BY DEF ToSender

\* A step that leaves the sender alone: the receiver may lose interest, but
\* as long as it has not, it has what it had, and tells what it has.
LEMMA ReceiverInv ==
    ASSUME IcInv, UNCHANGED snd, query' \in 0 .. next - 1, losses' \in 0 .. MaxLoss,
           data' \subseteq 1 .. sentSeq, cached' \subseteq 1 .. Cap, cached' \subseteq 1 .. sentSeq,
           life' \in {"start", "up", "torn"}, main' \in {"idle", "wait", "ready", "put"},
           rx' \in Conn, rx'.seq <= sentSeq + 1, rx'.extra <= sentSeq,
           \A p \in 0 .. Cap - 1 : rx'.slot[p] <= sentSeq,
           MainInv',
           Open' => /\ Open
                    /\ rx'.extra >= rx.extra /\ rx'.seq >= rx.seq
                    /\ \A t \in Packet : At(rx, t) => At(rx', t),
           \A a \in acks' : a \in acks \/ (/\ a \in AckMsg /\ a.extra <= next - 1
                                           /\ Open' => AckSound(rx', a))
    PROVE  IcInv'
<1>1. /\ next \in 1 .. Last + 1 /\ sentSeq \in 0 .. next - 1 /\ rx \in Conn /\ acks \subseteq AckMsg
      /\ Last \in Nat /\ Cap \in Nat
    BY Constants DEF IcInv, TypeOK
<1>2. /\ phase' = phase /\ next' = next /\ sentSeq' = sentSeq /\ unack' = unack
      /\ capacity' = capacity /\ consumedSeq' = consumedSeq /\ receivedAckSeq' = receivedAckSeq
      /\ stopReq' = stopReq /\ disorder' = disorder
    BY DEF snd, ctl
<1>3. acks' \subseteq AckMsg
    BY <1>1
<1>4. TypeOK'
  <2>1. data' \subseteq Packet /\ query' \in 0 .. Last
      BY <1>1 DEF Packet
  <2>2. /\ phase' \in {"fill", "buf", "eos", "done"}
        /\ next' \in 1 .. Last + 1 /\ sentSeq' \in 0 .. next' - 1 /\ unack' \subseteq 1 .. sentSeq'
        /\ capacity' \in 0 .. Cap + Last
        /\ consumedSeq' \in 0 .. next' - 1 /\ receivedAckSeq' \in 0 .. sentSeq'
        /\ disorder' \in [lastSeq : 0 .. Last, times : 0 .. 3]
      BY <1>2 DEF IcInv, TypeOK
  <2>3. stopReq' \in BOOLEAN
      BY <1>2 DEF IcInv, TypeOK
  <2> QED
      BY <1>3, <2>1, <2>2, <2>3 DEF TypeOK
<1>5. SentInv'
  <2>1. query' <= next' - 1
      BY <1>1, <1>2
  <2>2. ASSUME NEW a \in acks' PROVE a.extra <= next' - 1
      BY <1>2 DEF IcInv, SentInv
  <2> QED
      BY <1>2, <2>1, <2>2 DEF SentInv
<1>6. rx.extra \in Nat /\ rx'.extra \in Nat /\ sentSeq \in Nat /\ consumedSeq \in Nat
    BY <1>1, ConnType, Constants DEF IcInv, TypeOK
<1>7. FlowInv'
  <2>1. ASSUME Open' PROVE sentSeq <= rx'.extra + Cap /\ consumedSeq <= rx'.extra /\ ~ stopReq
    <3>1. sentSeq <= rx.extra + Cap /\ consumedSeq <= rx.extra /\ ~ stopReq /\ rx'.extra >= rx.extra
        BY <2>1 DEF IcInv, FlowInv
    <3> QED
        BY <1>1, <1>6, <3>1
  <2>2. phase' # "done" => capacity' + sentSeq' = consumedSeq' + Cap
      BY <1>2 DEF IcInv, FlowInv
  <2> QED
      BY <1>2, <2>1, <2>2 DEF FlowInv
<1>8. AckInv'
  <2>1. ASSUME Open', NEW a \in acks' PROVE AckSound(rx', a)
    <3>1. CASE a \in acks
      <4>1. AckSound(rx, a) /\ a \in AckMsg
          BY <1>1, <2>1, <3>1 DEF IcInv, AckInv
      <4> QED
          BY <1>1, <2>1, <4>1, AckSoundStays
    <3>2. CASE a \notin acks
        BY <2>1, <3>2
    <3> QED
        BY <3>1, <3>2
  <2> QED
      BY <2>1 DEF AckInv
<1>9. NothingLost'
  <2>1. ASSUME Open', NEW s \in 1 .. sentSeq PROVE s \in unack \/ At(rx', s)
    <3>1. s \in unack \/ At(rx, s)
        BY <2>1 DEF IcInv, NothingLost, Open, At
    <3>2. s \in Packet
        BY <1>1 DEF Packet
    <3> QED
        BY <2>1, <3>1, <3>2
  <2>2. Open' => \A s \in 1 .. sentSeq' : s \in unack' \/ At(rx', s)
      BY <1>2, <2>1
  <2> QED
      BY <2>2 DEF NothingLost, Open, At
<1> QED
    BY <1>4, <1>5, <1>7, <1>8, <1>9 DEF IcInv

\* What the invariant says of the receiver, as the steps below need it.
LEMMA ReceiverFacts ==
    ASSUME IcInv
    PROVE  /\ rx \in Conn /\ sentSeq \in Nat /\ next \in Nat /\ sentSeq <= next - 1 /\ next <= Last + 1
           /\ rx.seq \in Nat /\ rx.extra \in Nat /\ rx.seq <= sentSeq + 1 /\ rx.extra <= sentSeq
           /\ \A p \in 0 .. Cap - 1 : rx.slot[p] \in 0 .. sentSeq
           /\ query \in 0 .. next - 1 /\ losses \in 0 .. MaxLoss
           /\ data \subseteq 1 .. sentSeq /\ cached \subseteq 1 .. Cap /\ cached \subseteq 1 .. sentSeq
           /\ life \in {"start", "up", "torn"} /\ main \in {"idle", "wait", "ready", "put"}
           /\ MainInv
<1>1. rx \in Conn /\ next \in 1 .. Last + 1 /\ sentSeq \in 0 .. next - 1 /\ query \in 0 .. Last
    BY DEF IcInv, TypeOK
<1>2. next \in Nat /\ sentSeq \in Nat /\ sentSeq <= next - 1 /\ next <= Last + 1
    BY <1>1, Constants
<1>3. rx.seq \in Nat /\ rx.extra \in Nat
    BY <1>1, ConnType, Constants
<1>4. ASSUME NEW p \in 0 .. Cap - 1 PROVE rx.slot[p] \in 0 .. sentSeq
  <2>1. rx.slot[p] \in Nat
      BY <1>1, Constants, ConnType DEF Packet, NULL
  <2>2. rx.slot[p] <= sentSeq
      BY DEF IcInv, SentInv
  <2> QED
      BY <1>2, <2>1, <2>2
<1>5. query \in 0 .. next - 1
    BY <1>1, <1>2, Constants DEF IcInv, SentInv
<1>6. /\ losses \in 0 .. MaxLoss /\ cached \subseteq 1 .. Cap
      /\ life \in {"start", "up", "torn"} /\ main \in {"idle", "wait", "ready", "put"}
      /\ MainInv
    BY DEF IcInv, TypeOK
<1>7. /\ rx.seq <= sentSeq + 1 /\ rx.extra <= sentSeq
      /\ data \subseteq 1 .. sentSeq /\ cached \subseteq 1 .. sentSeq
    BY DEF IcInv, SentInv
<1> QED
    BY <1>1, <1>2, <1>3, <1>4, <1>5, <1>6, <1>7

\* A step that leaves the receiver's connection alone as well.
LEMMA NetworkInv ==
    ASSUME IcInv, UNCHANGED snd, life' = life, rx' = rx, main' = main,
           query' \in 0 .. next - 1, losses' \in 0 .. MaxLoss,
           data' \subseteq 1 .. sentSeq, cached' \subseteq 1 .. Cap, cached' \subseteq 1 .. sentSeq,
           \A a \in acks' : a \in acks \/ (/\ a \in AckMsg /\ a.extra <= next - 1
                                           /\ Open => AckSound(rx, a))
    PROVE  IcInv'
<1>1. /\ rx \in Conn /\ rx.seq <= sentSeq + 1 /\ rx.extra <= sentSeq
      /\ rx.seq \in Nat /\ rx.extra \in Nat
      /\ life \in {"start", "up", "torn"} /\ main \in {"idle", "wait", "ready", "put"}
      /\ MainInv
    BY ReceiverFacts
<1>2. Open' = Open
    BY DEF Open
<1>3. MainInv'
    BY <1>1 DEF MainInv, Open
<1>4. \A p \in 0 .. Cap - 1 : rx'.slot[p] <= sentSeq
    BY DEF IcInv, SentInv
<1>5. rx'.extra >= rx.extra /\ rx'.seq >= rx.seq /\ \A t \in Packet : At(rx, t) => At(rx', t)
    BY <1>1
<1>6. \A a \in acks' : a \in acks \/ (/\ a \in AckMsg /\ a.extra <= next - 1
                                      /\ Open' => AckSound(rx', a))
    BY <1>2
<1> QED
    BY <1>1, <1>2, <1>3, <1>4, <1>5, <1>6, ReceiverInv

\* "ACK the past": what a connection torn down answers.
LEMMA MismatchInv ==
    ASSUME IcInv, UNCHANGED snd, life = "torn", life' = life, rx' = rx, main' = main,
           query' \in 0 .. next - 1, losses' = losses, data' \subseteq data, cached' = cached,
           NEW s \in 0 .. next - 1, handleMismatch(s)
    PROVE  IcInv'
<1>1. /\ next \in Nat /\ next <= Last + 1
      /\ losses \in 0 .. MaxLoss /\ cached \subseteq 1 .. Cap /\ cached \subseteq 1 .. sentSeq
      /\ data \subseteq 1 .. sentSeq
    BY ReceiverFacts
<1>2. s \in 0 .. Last /\ s <= next - 1
    BY <1>1, Constants
<1>3. TRUE \in BOOLEAN
    OBVIOUS
<1>4. Ack(s, s, TRUE) \in AckMsg /\ Ack(s, s, TRUE).extra = s
    BY <1>2, <1>3, AckFields, Zenon
<1>5. ~ Open
    BY DEF Open
<1>6. \A a \in acks' : a \in acks \/ a = Ack(s, s, TRUE)
  <2> DEFINE k == Ack(s, s, TRUE)
  <2>1. ToSender({k})
      BY DEF handleMismatch
  <2> HIDE DEF k
  <2>2. \A a \in acks' : a \in acks \/ a = k
      BY <2>1, AcksAfter
  <2> QED
      BY <2>2 DEF k
<1>7. \A a \in acks' : a \in acks \/ (/\ a \in AckMsg /\ a.extra <= next - 1
                                      /\ Open => AckSound(rx, a))
    BY <1>2, <1>4, <1>5, <1>6
<1>8. data' \subseteq 1 .. sentSeq
    BY <1>1
<1> QED
    BY <1>1, <1>7, <1>8, NetworkInv

\* A packet is sent again after a timeout.
LEMMA ExpireInv ==
    ASSUME IcInv, NEW s \in Packet, Expire(s)
    PROVE  IcInv'
<1>1. /\ losses \in 0 .. MaxLoss /\ cached \subseteq 1 .. Cap /\ cached \subseteq 1 .. sentSeq
      /\ data \subseteq 1 .. sentSeq /\ query \in 0 .. next - 1
    BY ReceiverFacts
<1>2. /\ UNCHANGED snd /\ life' = life /\ rx' = rx /\ main' = main /\ cached' = cached
      /\ query' = query /\ losses' = losses /\ acks' = acks /\ data' = data \cup {s} /\ s \in unack
    BY DEF Expire, rcv
<1>3. data' \subseteq 1 .. sentSeq
    BY <1>1, <1>2 DEF IcInv, TypeOK
<1> QED
    BY <1>1, <1>2, <1>3, NetworkInv

\* The sender asks for the state of a receiver without capacity.
LEMMA StatusQueryInv == IcInv /\ StatusQuery => IcInv'
<1> SUFFICES ASSUME IcInv, StatusQuery PROVE IcInv'
    OBVIOUS
<1>1. /\ losses \in 0 .. MaxLoss /\ cached \subseteq 1 .. Cap /\ cached \subseteq 1 .. sentSeq
      /\ data \subseteq 1 .. sentSeq /\ next \in Nat /\ sentSeq \in Nat /\ sentSeq <= next - 1
    BY ReceiverFacts
<1>2. /\ UNCHANGED snd /\ life' = life /\ rx' = rx /\ main' = main /\ cached' = cached
      /\ query' = next - 1 /\ losses' = losses /\ acks' = acks /\ data' = data
    BY DEF StatusQuery, rcv
<1>3. query' \in 0 .. next - 1
    BY <1>1, <1>2
<1> QED
    BY <1>1, <1>2, <1>3, NetworkInv

\* The network loses a message.
LEMMA LoseInv == IcInv /\ Lose => IcInv'
<1> SUFFICES ASSUME IcInv, Lose PROVE IcInv'
    OBVIOUS
<1>1. /\ losses \in 0 .. MaxLoss /\ cached \subseteq 1 .. Cap /\ cached \subseteq 1 .. sentSeq
      /\ data \subseteq 1 .. sentSeq /\ query \in 0 .. next - 1
      /\ next \in Nat /\ sentSeq \in Nat /\ sentSeq <= next - 1
    BY ReceiverFacts
<1>2. /\ UNCHANGED snd /\ life' = life /\ rx' = rx /\ main' = main /\ cached' = cached
    BY DEF Lose, rcv
<1>3. query' \in {query, 0} /\ data' \subseteq data /\ acks' \subseteq acks
    BY DEF Lose
<1>4. losses' \in 0 .. MaxLoss
  <2>1. losses' = losses + 1 /\ losses < MaxLoss
      BY DEF Lose
  <2>2. MaxLoss \in Nat
      BY IcAssumption
  <2> QED
      BY <1>1, <2>1, <2>2
<1>5. query' \in 0 .. next - 1 /\ data' \subseteq 1 .. sentSeq
    BY <1>1, <1>3
<1> QED
    BY <1>1, <1>2, <1>3, <1>4, <1>5, NetworkInv

\* The answer to a status query.
LEMMA ReceiveQueryInv == IcInv /\ ReceiveQuery => IcInv'
<1> SUFFICES ASSUME IcInv, ReceiveQuery PROVE IcInv'
    OBVIOUS
<1>1. /\ losses \in 0 .. MaxLoss /\ cached \subseteq 1 .. Cap /\ cached \subseteq 1 .. sentSeq
      /\ data \subseteq 1 .. sentSeq /\ query \in 0 .. next - 1 /\ rx \in Conn
      /\ next \in Nat /\ sentSeq \in Nat /\ sentSeq <= next - 1 /\ next <= Last + 1
      /\ rx.seq \in Nat /\ rx.extra \in Nat /\ rx.seq <= sentSeq + 1 /\ rx.extra <= sentSeq
    BY ReceiverFacts
<1>2. /\ UNCHANGED snd /\ life' = life /\ rx' = rx /\ main' = main /\ cached' = cached
      /\ losses' = losses /\ data' = data /\ query' = 0
    BY DEF ReceiveQuery, rcv
<1>3. query' \in 0 .. next - 1
    BY <1>1, <1>2
<1>4. CASE life = "torn"
  <2>1. handleMismatch(query)
      BY <1>4 DEF ReceiveQuery
  <2> QED
      BY <1>1, <1>2, <1>3, <1>4, <2>1, MismatchInv
<1>5. CASE life # "torn"
  <2> DEFINE q == rx.seq - 1
             e == IF rx.stop THEN rx.seq - 1 ELSE rx.extra
             b == rx.stop
  <2>1. ToSender({Ack(q, e, b)})
      BY <1>5 DEF ReceiveQuery
  <2>2. q \in 0 .. Last /\ e \in 0 .. Last /\ e <= next - 1 /\ q < rx.seq
      BY <1>1, ConnType, Constants
  <2>3. b \in BOOLEAN
      BY <1>1, ConnType
  <2>4. Open => b = FALSE /\ e = rx.extra
      BY DEF Open
  <2> HIDE DEF q, e, b
  <2>5. /\ Ack(q, e, b) \in AckMsg
        /\ Ack(q, e, b).kind = "ack" /\ Ack(q, e, b).seq = q
        /\ Ack(q, e, b).extra = e /\ Ack(q, e, b).stop = b
      BY <2>2, <2>3, AckFields, Zenon
  <2>6. Open => AckSound(rx, Ack(q, e, b))
    <3>1. Open => e <= rx.extra
        BY <1>1, <2>4
    <3> QED
        BY <2>2, <2>4, <2>5, <3>1 DEF AckSound
  <2>7. \A a \in acks' : a \in acks \/ a = Ack(q, e, b)
      BY <2>1, AcksAfter
  <2>8. \A a \in acks' : a \in acks \/ (/\ a \in AckMsg /\ a.extra <= next - 1
                                        /\ Open => AckSound(rx, a))
      BY <2>2, <2>5, <2>6, <2>7
  <2> QED
      BY <1>1, <1>2, <1>3, <2>8, NetworkInv
<1> QED
    BY <1>4, <1>5

\* What has arrived in order was sent, if what is in the slots was.
LEMMA SeqSent ==
    ASSUME NEW x \in Conn, QueueWindow(x), NEW n \in Nat, x.extra <= n,
           \A p \in 0 .. Cap - 1 : x.slot[p] <= n
    PROVE  x.seq <= n + 1
<1>1. x.extra \in Nat /\ x.seq \in Nat
    BY ConnType, Constants
<1>2. x.extra < x.seq
    BY AfterExtra
<1>3. CASE x.seq = x.extra + 1
    BY <1>1, <1>3
<1>4. CASE x.seq # x.extra + 1
  <2> DEFINE t == x.seq - 1
  <2>1. t \in x.extra + 1 .. x.seq - 1 /\ t - 1 \in Nat
      BY <1>1, <1>2, <1>4
  <2>2. x.slot[(t - 1) % Cap] = t
      BY <2>1 DEF QueueWindow
  <2>3. (t - 1) % Cap \in 0 .. Cap - 1
      BY <2>1, SlotNumber
  <2>4. t <= n
      BY <2>2, <2>3
  <2> QED
      BY <1>1, <2>4
<1> QED
    BY <1>3, <1>4

\* A packet that comes in on a connection whose queue is in use.
LEMMA ReceiveOpen ==
    ASSUME IcInv, QueueShape(rx), ~ rx.stop, NEW s \in Packet, s <= sentSeq,
           s < rx.seq \/ (rx.active /\ s <= rx.extra + Cap),
           NEW h, h = handleDataPacket(rx, s), rx' = h.rx, UNCHANGED snd,
           life # "torn", life' = "up",
           main' = IF main = "wait" /\ h.wake THEN "ready" ELSE main,
           data' \subseteq data, cached' \subseteq cached, query' = query, losses' = losses,
           ToSender(h.acks), main # "idle" => life = "up"
    PROVE  IcInv'
<1>1. /\ losses \in 0 .. MaxLoss /\ cached \subseteq 1 .. Cap /\ cached \subseteq 1 .. sentSeq
      /\ data \subseteq 1 .. sentSeq /\ query \in 0 .. next - 1
      /\ main \in {"idle", "wait", "ready", "put"} /\ MainInv
    BY ReceiverFacts
<1>2. /\ rx \in Conn /\ next \in Nat /\ sentSeq \in Nat /\ sentSeq <= next - 1 /\ next <= Last + 1
      /\ rx.seq \in Nat /\ rx.extra \in Nat /\ rx.extra <= sentSeq
    BY ReceiverFacts
<1>3. \A p \in 0 .. Cap - 1 : rx.slot[p] \in 0 .. sentSeq
    BY ReceiverFacts
<1>4. DataResult(rx, s, h.rx, h.acks, h.wake)
    BY <1>2, DataOpen
<1> DEFINE x == h.rx
<1>5. /\ x \in Conn /\ QueueShape(x)
      /\ x.extra = rx.extra /\ x.stop = rx.stop /\ x.active = rx.active /\ x.head = rx.head
      /\ x.seq >= rx.seq
    BY <1>4 DEF DataResult
<1>6. \A t \in Packet : At(rx, t) => At(x, t)
    BY <1>4 DEF DataResult
<1>7. \A p \in 0 .. Cap - 1 : x.slot[p] = rx.slot[p] \/ (rx.slot[p] = NULL /\ x.slot[p] = s)
    BY <1>4 DEF DataResult
<1>8. h.wake => x.slot[x.head] # NULL
    BY <1>4 DEF DataResult
<1>9. \A a \in h.acks : a \in AckMsg /\ AckSound(x, a) /\ a.extra < x.seq
    BY <1>4 DEF DataResult
<1>10. rx' = x
    OBVIOUS
<1> HIDE DEF x
<1>11. \A p \in 0 .. Cap - 1 : x.slot[p] <= sentSeq
    BY <1>2, <1>3, <1>7
<1>12. x.seq \in Nat /\ x.extra \in Nat /\ x.head \in 0 .. Cap - 1
    BY <1>5, ConnType, Constants
<1>13. x.seq <= sentSeq + 1
    BY <1>2, <1>5, <1>11, SeqSent DEF QueueShape
<1>14. ASSUME NEW a \in acks'
       PROVE  a \in acks \/ (/\ a \in AckMsg /\ a.extra <= next - 1
                             /\ Open' => AckSound(rx', a))
  <2>1. CASE a \in h.acks
    <3>1. a \in AckMsg /\ AckSound(x, a) /\ a.extra < x.seq
        BY <1>9, <2>1
    <3>2. a.extra \in Nat
        BY <3>1, Constants DEF AckMsg
    <3>3. a.extra <= next - 1
        BY <1>2, <1>12, <1>13, <3>1, <3>2
    <3> QED
        BY <1>10, <3>1, <3>3
  <2> QED
      BY <2>1, AcksAfter
<1>15. main' \in {"idle", "wait", "ready", "put"}
    BY <1>1
<1>16. MainInv'
  <2>1. main' \in {"wait", "ready"} => main \in {"wait", "ready"}
      OBVIOUS
  <2>2. main' = "put" => main = "put"
      OBVIOUS
  <2>3. main' \in {"wait", "ready"} => life' = "up" /\ ~ rx'.stop /\ rx'.active
      BY <1>1, <1>5, <1>10, <2>1 DEF MainInv
  <2>4. main' = "put" => life' = "up" /\ ~ rx'.stop
      BY <1>1, <1>5, <1>10, <2>2 DEF MainInv
  <2>5. rx.slot[rx.head] # NULL => x.slot[x.head] = rx.slot[rx.head]
      BY <1>5, <1>7, <1>12
  <2>6. main' = "put" /\ ~ rx'.active => rx'.slot[rx'.head] = Last
    <3>1. SUFFICES ASSUME main' = "put", ~ rx'.active PROVE rx'.slot[rx'.head] = Last
        OBVIOUS
    <3>2. rx.slot[rx.head] = Last /\ rx.slot[rx.head] # NULL
        BY <1>1, <1>5, <1>10, <2>2, <3>1 DEF MainInv
    <3> QED
        BY <1>10, <2>5, <3>2
  <2>7. main' \in {"ready", "put"} => rx'.slot[rx'.head] # NULL
    <3>1. CASE main \in {"ready", "put"}
        BY <1>1, <1>10, <2>5, <3>1 DEF MainInv
    <3>2. CASE main = "wait" /\ h.wake
        BY <1>8, <1>10, <3>2
    <3> QED
        BY <3>1, <3>2
  <2>8. QueueShape(rx')
      BY <1>5, <1>10
  <2> QED
      BY <2>3, <2>4, <2>6, <2>7, <2>8 DEF MainInv
<1>17. Open' => Open
    BY <1>5, <1>10 DEF Open
<1>18. x.extra <= sentSeq /\ x.extra >= rx.extra
    BY <1>2, <1>5
<1>19. data' \subseteq 1 .. sentSeq /\ cached' \subseteq 1 .. Cap /\ cached' \subseteq 1 .. sentSeq
       /\ query' \in 0 .. next - 1 /\ losses' \in 0 .. MaxLoss /\ life' \in {"start", "up", "torn"}
    BY <1>1
<1> QED
    BY <1>5, <1>6, <1>10, <1>11, <1>13, <1>14, <1>15, <1>16, <1>17, <1>18, <1>19, ReceiverInv

\* A packet that comes in on a connection that wants no data.
LEMMA ReceiveClosed ==
    ASSUME IcInv, rx.stop \/ ~ rx.active, main = "idle", NEW s \in Packet, s <= sentSeq,
           NEW h, h = handleDataPacket(rx, s), rx' = h.rx, UNCHANGED snd,
           life = "up", life' = "up",
           main' = IF main = "wait" /\ h.wake THEN "ready" ELSE main,
           data' \subseteq data, cached' = cached, query' = query, losses' = losses,
           ToSender(h.acks)
    PROVE  IcInv'
<1>1. /\ losses \in 0 .. MaxLoss /\ cached \subseteq 1 .. Cap /\ cached \subseteq 1 .. sentSeq
      /\ data \subseteq 1 .. sentSeq /\ query \in 0 .. next - 1
    BY ReceiverFacts
<1>2. /\ rx \in Conn /\ next \in Nat /\ sentSeq \in Nat /\ sentSeq <= next - 1 /\ next <= Last + 1
      /\ rx.seq \in Nat /\ rx.extra \in Nat /\ rx.extra <= sentSeq /\ rx.seq <= sentSeq + 1
    BY ReceiverFacts
<1>3. \A p \in 0 .. Cap - 1 : rx.slot[p] \in 0 .. sentSeq
    BY ReceiverFacts
<1>4. ClosedResult(rx, s, h.rx, h.acks, h.wake)
    BY <1>2, DataClosed
<1> DEFINE x == h.rx
<1>5. /\ x \in Conn /\ x.extra = rx.extra /\ x.slot = rx.slot /\ x.stop = rx.stop
      /\ x.active => rx.active
      /\ x.seq = rx.seq \/ x.seq = s
    BY <1>4 DEF ClosedResult
<1>6. \A a \in h.acks : a \in AckMsg /\ (a.extra = s \/ a.extra = rx.extra)
    BY <1>4 DEF ClosedResult
<1>7. rx' = x
    OBVIOUS
<1> HIDE DEF x
<1>8. s \in Nat
    BY Constants DEF Packet
<1>9. x.seq <= sentSeq + 1 /\ x.extra <= sentSeq
    BY <1>2, <1>5, <1>8
<1>10. \A p \in 0 .. Cap - 1 : x.slot[p] <= sentSeq
    BY <1>2, <1>3, <1>5
<1>11. ~ Open'
    BY <1>5, <1>7 DEF Open
<1>12. main' = "idle"
    OBVIOUS
<1>13. MainInv'
    BY <1>11, <1>12 DEF MainInv
<1>14. ASSUME NEW a \in acks'
       PROVE  a \in acks \/ (/\ a \in AckMsg /\ a.extra <= next - 1
                             /\ Open' => AckSound(rx', a))
  <2>1. CASE a \in h.acks
    <3>1. a \in AckMsg /\ (a.extra = s \/ a.extra = rx.extra)
        BY <1>6, <2>1
    <3>2. a.extra <= next - 1
        BY <1>2, <1>8, <3>1
    <3> QED
        BY <1>11, <3>1, <3>2
  <2> QED
      BY <2>1, AcksAfter
<1>19. data' \subseteq 1 .. sentSeq /\ cached' \subseteq 1 .. Cap /\ cached' \subseteq 1 .. sentSeq
       /\ query' \in 0 .. next - 1 /\ losses' \in 0 .. MaxLoss /\ life' \in {"start", "up", "torn"}
    BY <1>1
<1> QED
    BY <1>5, <1>7, <1>9, <1>10, <1>11, <1>12, <1>13, <1>14, <1>19, ReceiverInv

\* A packet before setup, on a connection and after teardown.
LEMMA ReceiveInv ==
    ASSUME IcInv, NEW s \in Packet, Receive(s)
    PROVE  IcInv'
<1>1. /\ losses \in 0 .. MaxLoss /\ cached \subseteq 1 .. Cap /\ cached \subseteq 1 .. sentSeq
      /\ data \subseteq 1 .. sentSeq /\ query \in 0 .. next - 1 /\ MainInv
      /\ main \in {"idle", "wait", "ready", "put"}
    BY ReceiverFacts
<1>2. /\ rx \in Conn /\ next \in Nat /\ sentSeq \in Nat /\ sentSeq <= next - 1
      /\ rx.seq \in Nat /\ rx.extra \in Nat
    BY ReceiverFacts
<1>3. /\ UNCHANGED snd /\ life' = life /\ query' = query /\ losses' = losses
      /\ data' \subseteq data /\ s \in data
    BY DEF Receive
<1>4. s \in Nat /\ s <= sentSeq /\ s \in 1 .. sentSeq /\ s \in 0 .. next - 1
    BY <1>1, <1>2, <1>3
<1>5. CASE life = "start"
  <2>1. cached' = cached \cup ({s} \cap 1 .. Cap) /\ rx' = rx /\ main' = main /\ acks' = acks
      BY <1>5 DEF Receive, cacheFuturePacket
  <2>2. cached' \subseteq 1 .. Cap /\ cached' \subseteq 1 .. sentSeq /\ data' \subseteq 1 .. sentSeq
      BY <1>1, <1>3, <1>4, <2>1
  <2> QED
      BY <1>1, <1>3, <2>1, <2>2, NetworkInv
<1>6. CASE life = "torn"
  <2>1. handleMismatch(s) /\ rx' = rx /\ main' = main /\ cached' = cached
      BY <1>6 DEF Receive
  <2>2. query' \in 0 .. next - 1
      BY <1>1, <1>3
  <2> QED
      BY <1>3, <1>4, <1>6, <2>1, <2>2, MismatchInv
<1>7. CASE life = "up"
  <2> DEFINE h == handleDataPacket(rx, s)
  <2>1. /\ rx' = h.rx /\ ToSender(h.acks) /\ cached' = cached
        /\ main' = IF main = "wait" /\ h.wake THEN "ready" ELSE main
      BY <1>7 DEF Receive
  <2>2. CASE Open
    <3>1. QueueShape(rx) /\ ~ rx.stop /\ rx.active
        BY <1>1, <2>2 DEF MainInv, Open
    <3>2. s <= rx.extra + Cap
      <4>1. sentSeq <= rx.extra + Cap
          BY <2>2 DEF IcInv, FlowInv
      <4> QED
          BY <1>2, <1>4, <4>1, Constants
    <3>3. h = handleDataPacket(rx, s) /\ cached' \subseteq cached
        BY <2>1
    <3> HIDE DEF h
    <3> QED
        BY <1>3, <1>4, <1>7, <2>1, <3>1, <3>2, <3>3, ReceiveOpen
  <2>3. CASE main = "put" /\ ~ rx.active
    <3>1. QueueShape(rx) /\ ~ rx.stop /\ rx.slot[rx.head] = Last /\ rx.slot[rx.head] # NULL
        BY <1>1, <2>3 DEF MainInv
    <3>2. s < rx.seq
      <4>1. rx.extra + 1 = Last /\ rx.size >= 1
          BY <1>2, <3>1, HeadChunk
      <4>2. rx.seq = rx.extra + 1 + rx.size
          BY <1>2, <3>1, HeadTail DEF QueueShape
      <4>3. rx.size \in Nat /\ s <= Last /\ Last \in Nat
          BY <1>2, ConnType, Constants DEF Packet
      <4> QED
          BY <1>2, <1>4, <4>1, <4>2, <4>3
    <3>3. h = handleDataPacket(rx, s) /\ cached' \subseteq cached
        BY <2>1
    <3> HIDE DEF h
    <3> QED
        BY <1>3, <1>4, <1>7, <2>1, <3>1, <3>2, <3>3, ReceiveOpen
  <2>4. CASE ~ Open /\ ~ (main = "put" /\ ~ rx.active)
    <3>1. rx.stop \/ ~ rx.active
        BY <1>7, <2>4 DEF Open
    <3>2. main = "idle"
        BY <1>1, <2>4, <3>1 DEF MainInv
    <3>3. h = handleDataPacket(rx, s)
        OBVIOUS
    <3> HIDE DEF h
    <3> QED
        BY <1>3, <1>4, <1>7, <2>1, <3>1, <3>2, <3>3, ReceiveClosed
  <2> QED
      BY <2>2, <2>3, <2>4
<1>8. life \in {"start", "up", "torn"}
    BY ReceiverFacts
<1> QED
    BY <1>5, <1>6, <1>7, <1>8

\* Setup, with the packet that came before it.
LEMMA SetupInv == IcInv /\ Setup => IcInv'
<1> SUFFICES ASSUME IcInv, Setup PROVE IcInv'
    OBVIOUS
<1>1. /\ losses \in 0 .. MaxLoss /\ cached \subseteq 1 .. Cap /\ cached \subseteq 1 .. sentSeq
      /\ data \subseteq 1 .. sentSeq /\ query \in 0 .. next - 1 /\ MainInv
      /\ main \in {"idle", "wait", "ready", "put"}
    BY ReceiverFacts
<1>2. /\ rx \in Conn /\ next \in Nat /\ sentSeq \in Nat /\ sentSeq <= next - 1 /\ next <= Last + 1
      /\ rx.seq \in Nat /\ rx.extra \in Nat /\ rx.seq <= sentSeq + 1 /\ rx.extra <= sentSeq
    BY ReceiverFacts
<1>3. \A p \in 0 .. Cap - 1 : rx.slot[p] \in 0 .. sentSeq
    BY ReceiverFacts
<1>4. /\ UNCHANGED snd /\ life = "start" /\ life' = "up" /\ query' = query /\ losses' = losses
      /\ data' = data /\ cached' = {} /\ main' = main
    BY DEF Setup
<1>5. rx = NewConn /\ main = "idle"
    BY <1>1, <1>4 DEF MainInv
<1>6. ~ rx.stop /\ rx.active
    BY <1>5 DEF NewConn
<1>7. Open
    BY <1>4, <1>6 DEF Open
<1>8. QueueShape(rx)
    BY <1>1, <1>7 DEF MainInv
<1>9. CASE 1 \in cached
  <2> DEFINE h == handleDataPacket(rx, 1)
             s == 1
  <2>1. rx' = h.rx /\ ToSender(h.acks)
      BY <1>9 DEF Setup
  <2>2. s \in Packet /\ s <= sentSeq /\ s <= rx.extra + Cap
      BY <1>1, <1>2, <1>9, Constants DEF Packet
  <2>3. h = handleDataPacket(rx, s) /\ cached' \subseteq cached /\ life # "torn"
      BY <1>4
  <2>4. main' = IF main = "wait" /\ h.wake THEN "ready" ELSE main
      BY <1>4, <1>5
  <2> HIDE DEF h, s
  <2>5. data' \subseteq data /\ (main # "idle" => life = "up")
      BY <1>4, <1>5
  <2> QED
      BY <1>4, <1>6, <1>8, <2>1, <2>2, <2>3, <2>4, <2>5, ReceiveOpen
<1>10. CASE 1 \notin cached
  <2>1. rx' = rx /\ acks' = acks
      BY <1>10 DEF Setup
  <2>2. MainInv'
      BY <1>4, <1>5, <1>8, <2>1 DEF MainInv
  <2>3. \A p \in 0 .. Cap - 1 : rx'.slot[p] <= sentSeq
      BY <1>2, <1>3, <2>1
  <2>4. rx'.extra >= rx.extra /\ rx'.seq >= rx.seq /\ \A t \in Packet : At(rx, t) => At(rx', t)
      BY <1>2, <2>1
  <2>5. cached' \subseteq 1 .. Cap /\ cached' \subseteq 1 .. sentSeq
      BY <1>4
  <2>6. rx' \in Conn /\ rx'.seq <= sentSeq + 1 /\ rx'.extra <= sentSeq
      BY <1>2, <2>1
  <2>7. \A a \in acks' : a \in acks \/ (/\ a \in AckMsg /\ a.extra <= next - 1
                                        /\ Open' => AckSound(rx', a))
      BY <2>1
  <2>8. /\ query' \in 0 .. next - 1 /\ losses' \in 0 .. MaxLoss /\ data' \subseteq 1 .. sentSeq
        /\ life' \in {"start", "up", "torn"} /\ main' \in {"idle", "wait", "ready", "put"}
      BY <1>1, <1>4
  <2> QED
      BY <1>4, <1>7, <2>2, <2>3, <2>4, <2>5, <2>6, <2>7, <2>8, ReceiverInv
<1> QED
    BY <1>9, <1>10

\* The main thread finds the head of the queue, or waits.
LEMMA RecvTupleChunkInv == IcInv /\ RecvTupleChunk => IcInv'
<1> SUFFICES ASSUME IcInv, RecvTupleChunk PROVE IcInv'
    OBVIOUS
<1>1. /\ losses \in 0 .. MaxLoss /\ cached \subseteq 1 .. Cap /\ cached \subseteq 1 .. sentSeq
      /\ data \subseteq 1 .. sentSeq /\ query \in 0 .. next - 1 /\ MainInv
    BY ReceiverFacts
<1>2. /\ rx \in Conn /\ next \in Nat /\ sentSeq \in Nat
      /\ rx.seq \in Nat /\ rx.extra \in Nat /\ rx.seq <= sentSeq + 1 /\ rx.extra <= sentSeq
    BY ReceiverFacts
<1>3. \A p \in 0 .. Cap - 1 : rx.slot[p] \in 0 .. sentSeq
    BY ReceiverFacts
<1>4. /\ UNCHANGED snd /\ life = "up" /\ life' = "up" /\ cached' = cached /\ rx' = rx
      /\ data' = data /\ query' = query /\ acks' = acks /\ losses' = losses
      /\ rx.active /\ ~ rx.stop
      /\ main' = IF rx.slot[rx.head] # NULL THEN "ready" ELSE "wait"
    BY DEF RecvTupleChunk, net
<1>5. Open' = Open
    BY <1>4 DEF Open
<1>6. Open
    BY <1>4 DEF Open
<1>7. QueueShape(rx)
    BY <1>1, <1>6 DEF MainInv
<1>8. MainInv'
    BY <1>4, <1>7 DEF MainInv
<1>9. \A p \in 0 .. Cap - 1 : rx'.slot[p] <= sentSeq
    BY <1>2, <1>3, <1>4
<1>10. rx'.extra >= rx.extra /\ rx'.seq >= rx.seq /\ \A t \in Packet : At(rx, t) => At(rx', t)
    BY <1>2, <1>4
<1>11. rx' \in Conn /\ rx'.seq <= sentSeq + 1 /\ rx'.extra <= sentSeq
    BY <1>2, <1>4
<1>12. main' \in {"idle", "wait", "ready", "put"} /\ life' \in {"start", "up", "torn"}
    BY <1>4
<1>13. \A a \in acks' : a \in acks \/ (/\ a \in AckMsg /\ a.extra <= next - 1
                                       /\ Open' => AckSound(rx', a))
    BY <1>4
<1>14. /\ query' \in 0 .. next - 1 /\ losses' \in 0 .. MaxLoss /\ data' \subseteq 1 .. sentSeq
       /\ cached' \subseteq 1 .. Cap /\ cached' \subseteq 1 .. sentSeq
    BY <1>1, <1>4
<1> QED
    BY <1>4, <1>6, <1>8, <1>9, <1>10, <1>11, <1>12, <1>13, <1>14, ReceiverInv

\* The main thread processes the head of the queue.
LEMMA ProcessChunksInv == IcInv /\ ProcessChunks => IcInv'
<1> SUFFICES ASSUME IcInv, ProcessChunks PROVE IcInv'
    OBVIOUS
<1>1. /\ losses \in 0 .. MaxLoss /\ cached \subseteq 1 .. Cap /\ cached \subseteq 1 .. sentSeq
      /\ data \subseteq 1 .. sentSeq /\ query \in 0 .. next - 1 /\ MainInv
    BY ReceiverFacts
<1>2. /\ rx \in Conn /\ next \in Nat /\ sentSeq \in Nat
      /\ rx.seq \in Nat /\ rx.extra \in Nat /\ rx.seq <= sentSeq + 1 /\ rx.extra <= sentSeq
    BY ReceiverFacts
<1>3. \A p \in 0 .. Cap - 1 : rx.slot[p] \in 0 .. sentSeq
    BY ReceiverFacts
<1>4. /\ UNCHANGED snd /\ life = "up" /\ life' = "up" /\ cached' = cached
      /\ data' = data /\ query' = query /\ acks' = acks /\ losses' = losses
      /\ main = "ready" /\ main' = "put"
    BY DEF ProcessChunks, net
<1>5. rx.active /\ ~ rx.stop /\ rx.slot[rx.head] # NULL
    BY <1>1, <1>4 DEF MainInv
<1>6. Open
    BY <1>4, <1>5 DEF Open
<1>7. QueueShape(rx)
    BY <1>1, <1>6 DEF MainInv
<1> DEFINE b == rx.active /\ rx.slot[rx.head] # Last
           x == [rx EXCEPT !.active = b]
<1>8. rx' = x
    BY DEF ProcessChunks
<1>9. b \in BOOLEAN /\ (~ b => rx.slot[rx.head] = Last)
    BY <1>5
<1> HIDE DEF b
<1>10. /\ x \in Conn /\ x.seq = rx.seq /\ x.extra = rx.extra /\ x.slot = rx.slot
       /\ x.head = rx.head /\ x.size = rx.size /\ x.stop = rx.stop /\ x.active = b
    BY <1>2, <1>9 DEF Conn
<1> HIDE DEF x
<1>11. QueueShape(x) /\ \A t \in Packet : At(rx, t) => At(x, t)
    BY <1>7, <1>10 DEF QueueShape, QueueWindow, At
<1>12. MainInv'
  <2>1. /\ QueueShape(rx') /\ ~ rx'.stop /\ (~ rx'.active => rx'.slot[rx'.head] = Last)
        /\ rx'.slot[rx'.head] # NULL
      BY <1>5, <1>8, <1>9, <1>10, <1>11
  <2> QED
      BY <1>4, <2>1 DEF MainInv
<1>13. \A p \in 0 .. Cap - 1 : rx'.slot[p] <= sentSeq
    BY <1>2, <1>3, <1>8, <1>10
<1>14. /\ rx' \in Conn /\ rx'.seq <= sentSeq + 1 /\ rx'.extra <= sentSeq
       /\ rx'.extra >= rx.extra /\ rx'.seq >= rx.seq /\ \A t \in Packet : At(rx, t) => At(rx', t)
    BY <1>2, <1>8, <1>10, <1>11
<1>15. main' \in {"idle", "wait", "ready", "put"} /\ life' \in {"start", "up", "torn"}
    BY <1>4
<1>16. \A a \in acks' : a \in acks \/ (/\ a \in AckMsg /\ a.extra <= next - 1
                                       /\ Open' => AckSound(rx', a))
    BY <1>4
<1>17. /\ query' \in 0 .. next - 1 /\ losses' \in 0 .. MaxLoss /\ data' \subseteq 1 .. sentSeq
       /\ cached' \subseteq 1 .. Cap /\ cached' \subseteq 1 .. sentSeq
    BY <1>1, <1>4
<1> QED
    BY <1>4, <1>6, <1>12, <1>13, <1>14, <1>15, <1>16, <1>17, ReceiverInv

\* The main thread puts the head of the queue back.
LEMMA PutRxBufferInv == IcInv /\ PutRxBuffer => IcInv'
<1> SUFFICES ASSUME IcInv, PutRxBuffer PROVE IcInv'
    OBVIOUS
<1>1. /\ losses \in 0 .. MaxLoss /\ cached \subseteq 1 .. Cap /\ cached \subseteq 1 .. sentSeq
      /\ data \subseteq 1 .. sentSeq /\ query \in 0 .. next - 1 /\ MainInv
    BY ReceiverFacts
<1>2. /\ rx \in Conn /\ next \in Nat /\ sentSeq \in Nat /\ sentSeq <= next - 1 /\ next <= Last + 1
      /\ rx.seq \in Nat /\ rx.extra \in Nat /\ rx.seq <= sentSeq + 1 /\ rx.extra <= sentSeq
    BY ReceiverFacts
<1>3. \A p \in 0 .. Cap - 1 : rx.slot[p] \in 0 .. sentSeq
    BY ReceiverFacts
<1>4. /\ UNCHANGED snd /\ life = "up" /\ life' = "up" /\ cached' = cached
      /\ data' = data /\ query' = query /\ losses' = losses
      /\ main = "put" /\ main' = "idle" /\ rx' = PutRx(rx)
      /\ ToSender(PutAcks(rx, rx.slot[rx.head]))
    BY DEF PutRxBuffer
<1>5. QueueShape(rx) /\ ~ rx.stop /\ rx.slot[rx.head] # NULL
    BY <1>1, <1>4 DEF MainInv
<1> DEFINE x == PutRx(rx)
           e == rx.slot[rx.head]
           q == rx.seq - 1
           b == rx.stop
<1>6. e = rx.extra + 1 /\ e \in Packet /\ rx.size >= 1
    BY <1>2, <1>5, HeadChunk
<1>7. /\ x \in Conn /\ x.extra = rx.extra + 1 /\ QueueShape(x)
      /\ \A t \in Packet : At(rx, t) => At(x, t)
    BY <1>2, <1>5, PutRxShape
<1>8. /\ x.seq = rx.seq /\ x.slot = [rx.slot EXCEPT ![rx.head] = NULL]
      /\ x.stop = rx.stop /\ x.active = rx.active
    BY <1>2, <1>6, PutRxFields
<1>9. rx' = x
    BY <1>4
<1> HIDE DEF x
<1>10. rx.slot \in [0 .. Cap - 1 -> {NULL} \cup Packet] /\ rx.head \in 0 .. Cap - 1
    BY <1>2, ConnType
<1>11. e <= sentSeq /\ e \in 0 .. Last /\ q \in 0 .. Last /\ q < rx.seq
  <2>1. e \in 0 .. sentSeq
      BY <1>3, <1>10
  <2>2. rx.seq \in 1 .. Last + 1 /\ Last \in Nat
      BY <1>2, ConnType, Constants
  <2> HIDE DEF e
  <2> QED
      BY <1>2, <1>6, <2>1, <2>2 DEF Packet
<1>12. \A p \in 0 .. Cap - 1 : x.slot[p] <= sentSeq
    BY <1>2, <1>3, <1>8, <1>10 DEF NULL
<1>13. b \in BOOLEAN /\ ~ b
    BY <1>2, <1>5, ConnType
<1>14. PutAcks(rx, e) \subseteq {Ack(q, e, b)}
    BY DEF PutAcks
<1> HIDE DEF e, q, b
<1>15. /\ Ack(q, e, b) \in AckMsg
       /\ Ack(q, e, b).kind = "ack" /\ Ack(q, e, b).seq = q
       /\ Ack(q, e, b).extra = e /\ Ack(q, e, b).stop = b
    BY <1>11, <1>13, AckFields, Zenon
<1>16. AckSound(x, Ack(q, e, b))
  <2>1. q < x.seq /\ e <= x.extra
      BY <1>2, <1>6, <1>7, <1>8, <1>11
  <2> QED
      BY <1>13, <1>15, <2>1 DEF AckSound
<1>17. \A a \in acks' : a \in acks \/ a = Ack(q, e, b)
  <2>1. ToSender(PutAcks(rx, e))
      BY <1>4 DEF e
  <2> QED
      BY <1>14, <2>1, AcksAfter
<1>18. e <= next - 1
    BY <1>2, <1>11
<1>19. \A a \in acks' : a \in acks \/ (/\ a \in AckMsg /\ a.extra <= next - 1
                                       /\ Open' => AckSound(rx', a))
    BY <1>9, <1>15, <1>16, <1>17, <1>18
<1>20. MainInv'
    BY <1>4, <1>7, <1>9 DEF MainInv
<1>21. Open' => Open
    BY <1>4, <1>8, <1>9 DEF Open
<1>22. /\ rx' \in Conn /\ rx'.seq <= sentSeq + 1 /\ rx'.extra <= sentSeq
       /\ rx'.extra >= rx.extra /\ rx'.seq >= rx.seq /\ \A t \in Packet : At(rx, t) => At(rx', t)
       /\ \A p \in 0 .. Cap - 1 : rx'.slot[p] <= sentSeq
  <2>1. rx'.extra <= sentSeq
      BY <1>6, <1>7, <1>9, <1>11
  <2>2. rx'.extra >= rx.extra /\ rx'.seq >= rx.seq /\ rx'.seq <= sentSeq + 1
      BY <1>2, <1>7, <1>8, <1>9
  <2> QED
      BY <1>7, <1>9, <1>12, <2>1, <2>2
<1>23. /\ query' \in 0 .. next - 1 /\ losses' \in 0 .. MaxLoss /\ data' \subseteq 1 .. sentSeq
       /\ cached' \subseteq 1 .. Cap /\ cached' \subseteq 1 .. sentSeq
       /\ main' \in {"idle", "wait", "ready", "put"} /\ life' \in {"start", "up", "torn"}
    BY <1>1, <1>4
<1> QED
    BY <1>4, <1>19, <1>20, <1>21, <1>22, <1>23, ReceiverInv

\* The acks that go with putting the whole queue back, and how far that gets.
LEMMA DrainFacts ==
    ASSUME IcInv
    PROVE  /\ \A a \in DrainAcks(rx) : a \in AckMsg /\ a.extra <= next - 1
           /\ Max({rx.extra} \cup Queued(rx)) \in 0 .. sentSeq
<1>1. /\ rx \in Conn /\ next \in Nat /\ sentSeq \in Nat /\ sentSeq <= next - 1 /\ next <= Last + 1
      /\ rx.extra \in Nat /\ rx.extra <= sentSeq
      /\ \A p \in 0 .. Cap - 1 : rx.slot[p] \in 0 .. sentSeq
    BY ReceiverFacts
<1>2. Queued(rx) \subseteq 0 .. sentSeq
  <2>1. ASSUME NEW i \in 0 .. rx.size - 1 PROVE rx.slot[(rx.head + i) % Cap] \in 0 .. sentSeq
    <3>1. rx.head + i \in Nat
        BY <1>1, ConnType, Constants
    <3>2. (rx.head + i) % Cap \in 0 .. Cap - 1
        BY <3>1, SlotNumber
    <3> QED
        BY <1>1, <3>2
  <2> QED
      BY <2>1 DEF Queued
<1>3. Max({rx.extra} \cup Queued(rx)) \in 0 .. sentSeq
  <2> DEFINE S == {rx.extra} \cup Queued(rx)
  <2>1. S \in SUBSET (0 .. sentSeq) /\ S # {}
      BY <1>1, <1>2
  <2> HIDE DEF S
  <2>2. Max(S) \in S
      BY <1>1, <2>1, MaxFact
  <2> QED
      BY <2>1, <2>2 DEF S
<1>4. ASSUME NEW a \in DrainAcks(rx) PROVE a \in AckMsg /\ a.extra <= next - 1
  <2>1. PICK e \in Queued(rx) : a \in PutAcks(rx, e)
      BY DEF DrainAcks
  <2> DEFINE q == rx.seq - 1
             b == rx.stop
  <2>2. a = Ack(q, e, b)
      BY <2>1 DEF PutAcks
  <2>3. q \in 0 .. Last /\ e \in 0 .. Last /\ e <= next - 1
      BY <1>1, <1>2, <2>1, ConnType, Constants
  <2>4. b \in BOOLEAN
      BY <1>1, ConnType
  <2> HIDE DEF q, b
  <2>5. Ack(q, e, b) \in AckMsg /\ Ack(q, e, b).extra = e
      BY <2>3, <2>4, AckFields, Zenon
  <2> QED
      BY <2>2, <2>3, <2>5
<1> QED
    BY <1>3, <1>4

\* The receiver loses interest: nothing is left to be shown but types.
LEMMA CloseInv ==
    ASSUME IcInv, UNCHANGED snd, data' = data, cached' = cached, query' = query, losses' = losses,
           life' \in {"up", "torn"}, main' = "idle", ~ Open',
           rx' \in Conn, rx'.seq <= sentSeq + 1, rx'.extra <= sentSeq,
           \A p \in 0 .. Cap - 1 : rx'.slot[p] <= sentSeq,
           NEW as, ToSender(as), \A a \in as : a \in AckMsg /\ a.extra <= next - 1
    PROVE  IcInv'
<1>1. /\ losses \in 0 .. MaxLoss /\ cached \subseteq 1 .. Cap /\ cached \subseteq 1 .. sentSeq
      /\ data \subseteq 1 .. sentSeq /\ query \in 0 .. next - 1
    BY ReceiverFacts
<1>2. MainInv'
    BY DEF MainInv
<1>3. \A a \in acks' : a \in acks \/ (/\ a \in AckMsg /\ a.extra <= next - 1
                                      /\ Open' => AckSound(rx', a))
    BY AcksAfter
<1>4. /\ query' \in 0 .. next - 1 /\ losses' \in 0 .. MaxLoss /\ data' \subseteq 1 .. sentSeq
      /\ cached' \subseteq 1 .. Cap /\ cached' \subseteq 1 .. sentSeq
      /\ main' \in {"idle", "wait", "ready", "put"} /\ life' \in {"start", "up", "torn"}
    BY <1>1
<1> QED
    BY <1>2, <1>3, <1>4, ReceiverInv

\* A new connection is well typed.
LEMMA NewConnType == NewConn \in Conn
<1>1. [p \in 0 .. Cap - 1 |-> NULL] \in [0 .. Cap - 1 -> {NULL} \cup Packet]
    OBVIOUS
<1>2. 1 \in 1 .. Last + 1 /\ 0 \in 0 .. Last /\ 0 \in 0 .. Cap - 1 /\ 0 \in 0 .. Cap
    BY Constants
<1>3. TRUE \in BOOLEAN /\ FALSE \in BOOLEAN
    OBVIOUS
<1> QED
    BY <1>1, <1>2, <1>3, Zenon DEF NewConn, Conn

\* The main thread stops the connection.
LEMMA SendStopMessageInv == IcInv /\ SendStopMessage => IcInv'
<1> SUFFICES ASSUME IcInv, SendStopMessage PROVE IcInv'
    OBVIOUS
<1>1. /\ rx \in Conn /\ next \in Nat /\ sentSeq \in Nat /\ sentSeq <= next - 1 /\ next <= Last + 1
      /\ rx.seq \in Nat /\ rx.extra \in Nat /\ rx.seq <= sentSeq + 1 /\ rx.extra <= sentSeq
    BY ReceiverFacts
<1>2. \A p \in 0 .. Cap - 1 : rx.slot[p] \in 0 .. sentSeq
    BY ReceiverFacts
<1>3. /\ UNCHANGED snd /\ life' = "up" /\ main' = "idle" /\ cached' = cached
      /\ data' = data /\ query' = query /\ losses' = losses
    BY DEF SendStopMessage
<1>4. CASE rx.eos
  <2> DEFINE f == [p \in 0 .. Cap - 1 |-> NULL]
             t == QTail(rx)
             e == Max({rx.extra} \cup Queued(rx))
             b == FALSE
             x == [rx EXCEPT !.slot = f, !.head = t, !.size = 0, !.extra = e, !.active = b]
  <2>1. rx' = x /\ ToSender(DrainAcks(rx))
    <3>1. rx' = [Drain(rx) EXCEPT !.active = FALSE] /\ ToSender(DrainAcks(rx))
        BY <1>4 DEF SendStopMessage
    <3>2. [Drain(rx) EXCEPT !.active = FALSE] = x
        BY <1>1 DEF Drain, Conn
    <3> QED
        BY <3>1, <3>2
  <2>2. t \in 0 .. Cap - 1
    <3>1. rx.head + rx.size \in Nat
        BY <1>1, ConnType, Constants
    <3> QED
        BY <3>1, SlotNumber DEF QTail
  <2>3. e \in 0 .. sentSeq /\ \A a \in DrainAcks(rx) : a \in AckMsg /\ a.extra <= next - 1
      BY DrainFacts
  <2>4. f \in [0 .. Cap - 1 -> {NULL} \cup Packet] /\ (\A p \in 0 .. Cap - 1 : f[p] = NULL)
      OBVIOUS
  <2>5. b \in BOOLEAN /\ ~ b
      OBVIOUS
  <2> HIDE DEF t, e, f, b
  <2>6. e \in 0 .. Last /\ 0 \in 0 .. Cap
      BY <1>1, <2>3, Constants
  <2>7. x \in Conn /\ x.extra = e /\ x.slot = f /\ x.seq = rx.seq /\ x.active = b
      BY <1>1, <2>2, <2>4, <2>5, <2>6 DEF Conn
  <2> HIDE DEF x
  <2>8. ~ Open'
      BY <2>1, <2>5, <2>7 DEF Open
  <2>9. \A p \in 0 .. Cap - 1 : rx'.slot[p] <= sentSeq
      BY <1>1, <2>1, <2>4, <2>7 DEF NULL
  <2>10. rx' \in Conn /\ rx'.seq <= sentSeq + 1 /\ rx'.extra <= sentSeq
      BY <1>1, <2>1, <2>3, <2>7
  <2>11. life' \in {"up", "torn"}
      BY <1>3
  <2> QED
      BY <1>3, <2>1, <2>3, <2>8, <2>9, <2>10, <2>11, CloseInv
<1>5. CASE ~ rx.eos
  <2> DEFINE b == TRUE
             x == [rx EXCEPT !.stop = b]
             q == rx.seq - 1
             as == IF rx.peer THEN {Ack(q, q, b)} ELSE {}
  <2>1. rx' = x /\ ToSender(as)
      BY <1>5 DEF SendStopMessage
  <2>2. b \in BOOLEAN /\ b
      OBVIOUS
  <2>3. q \in 0 .. Last /\ q <= next - 1
      BY <1>1, ConnType, Constants
  <2> HIDE DEF b, q
  <2>4. x \in Conn /\ x.extra = rx.extra /\ x.slot = rx.slot /\ x.seq = rx.seq /\ x.stop = b
      BY <1>1, <2>2 DEF Conn
  <2>5. Ack(q, q, b) \in AckMsg /\ Ack(q, q, b).extra = q
      BY <2>2, <2>3, AckFields, Zenon
  <2>6. \A a \in as : a \in AckMsg /\ a.extra <= next - 1
      BY <2>3, <2>5
  <2> HIDE DEF x, as
  <2>8. ~ Open'
      BY <2>1, <2>2, <2>4 DEF Open
  <2>9. \A p \in 0 .. Cap - 1 : rx'.slot[p] <= sentSeq
      BY <1>1, <1>2, <2>1, <2>4
  <2>10. rx' \in Conn /\ rx'.seq <= sentSeq + 1 /\ rx'.extra <= sentSeq
      BY <1>1, <2>1, <2>4
  <2>11. life' \in {"up", "torn"}
      BY <1>3
  <2> QED
      BY <1>3, <2>1, <2>6, <2>8, <2>9, <2>10, <2>11, CloseInv
<1> QED
    BY <1>4, <1>5

\* The connection is torn down.
LEMMA TeardownInv == IcInv /\ Teardown => IcInv'
<1> SUFFICES ASSUME IcInv, Teardown PROVE IcInv'
    OBVIOUS
<1>1. sentSeq \in Nat
    BY ReceiverFacts
<1>2. /\ UNCHANGED snd /\ life' = "torn" /\ main' = "idle" /\ cached' = cached
      /\ data' = data /\ query' = query /\ losses' = losses /\ rx' = NewConn
      /\ ToSender(DrainAcks(rx))
    BY DEF Teardown
<1>3. \A a \in DrainAcks(rx) : a \in AckMsg /\ a.extra <= next - 1
    BY DrainFacts
<1>4. ~ Open' /\ life' \in {"up", "torn"}
    BY <1>2 DEF Open
<1>5. NewConn.seq = 1 /\ NewConn.extra = 0 /\ \A p \in 0 .. Cap - 1 : NewConn.slot[p] = 0
    BY DEF NewConn, NULL
<1>6. /\ rx' \in Conn /\ rx'.seq <= sentSeq + 1 /\ rx'.extra <= sentSeq
      /\ \A p \in 0 .. Cap - 1 : rx'.slot[p] <= sentSeq
    BY <1>1, <1>2, <1>5, NewConnType
<1> QED
    BY <1>2, <1>3, <1>4, <1>6, CloseInv

-----------------------------------------------------------------------------
(* The invariant and what follows                                          *)

\* The queue of a new connection is empty.
LEMMA NewConnShape == QueueShape(NewConn)
<1>1. /\ NewConn.seq = 1 /\ NewConn.size = 0 /\ NewConn.extra = 0 /\ NewConn.head = 0
      /\ \A p \in 0 .. Cap - 1 : NewConn.slot[p] = NULL
    BY DEF NewConn
<1>2. 0 % Cap = 0 /\ 0 \in 0 .. Cap - 1
  <2>1. (Cap * 0 + 0) % Cap = 0
      BY Constants, ModUnique
  <2> QED
      BY <2>1, Constants
<1>3. NewConn.head = NewConn.extra % Cap
    BY <1>1, <1>2
<1>4. NewConn.slot[(NewConn.seq - 1) % Cap] = NULL
    BY <1>1, <1>2
<1>5. NewConn.seq - NewConn.size = NewConn.extra + 1
    BY <1>1
<1>6. \A s \in NewConn.extra + 1 .. NewConn.seq - 1 : NewConn.slot[(s - 1) % Cap] = s
    BY <1>1
<1> QED
    BY <1>1, <1>3, <1>4, <1>5, <1>6 DEF QueueShape, QueueWindow

\* The invariant holds at the start.
LEMMA InitInv == Init => IcInv
<1> SUFFICES ASSUME Init PROVE IcInv
    OBVIOUS
<1>1. NewConn.seq = 1 /\ NewConn.extra = 0 /\ \A p \in 0 .. Cap - 1 : NewConn.slot[p] = 0
    BY DEF NewConn, NULL
<1>2. TypeOK
  <2>1. disorder \in [lastSeq : 0 .. Last, times : 0 .. 3]
    <3>1. PICK l \in StaleSeq : disorder = [lastSeq |-> l, times |-> IF l = 0 THEN 0 ELSE 1]
        BY DEF Init
    <3>2. l \in 0 .. Last
        BY IcAssumption
    <3> QED
        BY <3>1, <3>2
  <2>2. /\ next \in 1 .. Last + 1 /\ sentSeq \in 0 .. next - 1
        /\ unack \subseteq 1 .. sentSeq /\ capacity \in 0 .. Cap + Last
        /\ consumedSeq \in 0 .. next - 1 /\ receivedAckSeq \in 0 .. sentSeq
        /\ cached \subseteq 1 .. Cap /\ data \subseteq Packet /\ query \in 0 .. Last
        /\ acks \subseteq AckMsg
      BY Constants DEF Init
  <2>3. losses \in 0 .. MaxLoss
    <3>1. MaxLoss \in Nat
        BY IcAssumption
    <3> QED
        BY <3>1 DEF Init
  <2>4. rx \in Conn
      BY NewConnType DEF Init
  <2>5. /\ stopReq \in BOOLEAN /\ phase \in {"fill", "buf", "eos", "done"}
        /\ life \in {"start", "up", "torn"} /\ main \in {"idle", "wait", "ready", "put"}
      BY DEF Init
  <2> QED
      BY <2>1, <2>2, <2>3, <2>4, <2>5 DEF TypeOK
<1>3. SentInv
    BY <1>1 DEF Init, SentInv
<1>4. MainInv
    BY NewConnShape DEF Init, MainInv
<1>5. FlowInv
    BY <1>1, Constants DEF Init, FlowInv
<1>6. AckInv
    BY DEF Init, AckInv
<1>7. NothingLost
    BY DEF Init, NothingLost
<1> QED
    BY <1>2, <1>3, <1>4, <1>5, <1>6, <1>7 DEF IcInv

\* Every step keeps the invariant.
LEMMA NextInv == IcInv /\ [Next]_vars => IcInv'
<1> SUFFICES ASSUME IcInv, [Next]_vars PROVE IcInv'
    OBVIOUS
<1>1. CASE SendChunk \/ SendEOS
    BY <1>1, SendChunkInv
<1>2. CASE GetBuffer \/ SendEOSDone
    BY <1>2, SenderWaitInv
<1>3. CASE AckStep
    BY <1>3, HandleAckInv DEF AckStep
<1>4. CASE \E s \in Packet : Expire(s)
    BY <1>4, ExpireInv
<1>5. CASE StatusQuery
    BY <1>5, StatusQueryInv
<1>6. CASE \E s \in Packet : Receive(s)
    BY <1>6, ReceiveInv
<1>7. CASE ReceiveQuery
    BY <1>7, ReceiveQueryInv
<1>8. CASE Setup
    BY <1>8, SetupInv
<1>9. CASE RecvTupleChunk
    BY <1>9, RecvTupleChunkInv
<1>10. CASE ProcessChunks
    BY <1>10, ProcessChunksInv
<1>11. CASE PutRxBuffer
    BY <1>11, PutRxBufferInv
<1>12. CASE SendStopMessage
    BY <1>12, SendStopMessageInv
<1>13. CASE Teardown
    BY <1>13, TeardownInv
<1>14. CASE Lose
    BY <1>14, LoseInv
<1>15. CASE UNCHANGED vars
  <2>1. /\ UNCHANGED snd /\ life' = life /\ rx' = rx /\ main' = main /\ cached' = cached
        /\ data' = data /\ query' = query /\ acks' = acks /\ losses' = losses
      BY <1>15 DEF vars, rcv, net
  <2>2. /\ losses \in 0 .. MaxLoss /\ cached \subseteq 1 .. Cap /\ cached \subseteq 1 .. sentSeq
        /\ data \subseteq 1 .. sentSeq /\ query \in 0 .. next - 1
      BY ReceiverFacts
  <2> QED
      BY <2>1, <2>2, NetworkInv
<1> QED
    BY <1>1, <1>2, <1>3, <1>4, <1>5, <1>6, <1>7, <1>8, <1>9, <1>10, <1>11, <1>12, <1>13, <1>14,
       <1>15 DEF Next, SenderStep, MainStep

\* The inductive invariant holds: the receiver's queue is a window after
\* extraSeq, the sender never sends beyond it, and an ack tells the truth.
THEOREM IcInvariant == Spec => []IcInv
BY InitInv, NextInv, PTL DEF Spec

\* Sequence numbers, slots, queue sizes, the capacity and the messages in
\* flight stay in range.
THEOREM IcTypeCorrect == Spec => []TypeOK
<1>1. IcInv => TypeOK
    BY DEF IcInv
<1> QED
    BY <1>1, IcInvariant, PTL

\* The chunk that the main thread of the receiver reads is the one after the
\* last it put back, although slots are reused and packets come in any order.
THEOREM IcInOrder == Spec => []InOrder
<1>1. IcInv => InOrder
  <2> SUFFICES ASSUME IcInv, main \in {"ready", "put"} PROVE rx.slot[rx.head] = rx.extra + 1
      BY DEF InOrder
  <2>1. rx \in Conn /\ MainInv
      BY ReceiverFacts
  <2>2. rx.slot[rx.head] # NULL
      BY <2>1 DEF MainInv
  <2>3. QueueShape(rx)
      BY <2>1 DEF MainInv, Open
  <2> QED
      BY <2>1, <2>2, <2>3, HeadChunk
<1> QED
    BY <1>1, IcInvariant, PTL

\* handleAckedPacket never frees a packet that a receiver still has to get.
THEOREM IcNothingLost == Spec => []NothingLost
<1>1. IcInv => NothingLost
    BY DEF IcInv
<1> QED
    BY <1>1, IcInvariant, PTL

\* handleDataPacket never meets a packet for which its queue has no room.
THEOREM IcNoOverrun == Spec => []NoOverrun
<1>1. IcInv => NoOverrun
  <2> SUFFICES ASSUME IcInv, life = "up", ~ rx.stop, rx.active, NEW s \in data, s >= rx.seq
               PROVE  ~ Overrun(rx, s)
      BY DEF NoOverrun
  <2>1. /\ rx \in Conn /\ MainInv /\ data \subseteq 1 .. sentSeq
        /\ sentSeq \in Nat /\ next \in Nat /\ sentSeq <= next - 1 /\ next <= Last + 1
        /\ rx.extra \in Nat
      BY ReceiverFacts
  <2>2. Open
      BY DEF Open
  <2>3. QueueShape(rx) /\ sentSeq <= rx.extra + Cap
      BY <2>1, <2>2 DEF IcInv, MainInv, FlowInv
  <2>4. s \in Packet /\ s <= rx.extra + Cap
      BY <2>1, <2>3, Constants DEF Packet
  <2> QED
      BY <2>1, <2>3, <2>4, Fits
<1> QED
    BY <1>1, IcInvariant, PTL
=============================================================================
