----------------------------- MODULE GddProofs -----------------------------
(***************************************************************************)
(* Proof that the global deadlock detector interrupts no transaction that  *)
(* could go on, although it reads the nodes at different times: for any    *)
(* number of backends, segments and transactions.                          *)
(***************************************************************************)
EXTENDS Gdd, TLAPS, WellFoundedInduction
-----------------------------------------------------------------------------
(* What the proofs suppose of the environment: nothing but the detector     *)
(* interrupts a wait, an abort does not outlast the sleep of the detector,  *)
(* and the ids fit the int and the TransactionId they are kept in.          *)
Undisturbed ==
    /\ ~ Savepoints /\ ~ UserCancels /\ ~ SlowAbort
    /\ \A v \in Vid \cup {0} : v % 2^IntBits = v /\ AsInt(v) = v

-----------------------------------------------------------------------------
(* The inductive invariant                                                  *)

\* A gxid is in the proc array while its transaction runs or ends.
XactInv ==
    /\ \A b \in Backend :
          /\ gxid[b] # 0 <=> status[b] \in {"active", "ending"}
          /\ gxid[b] < nextGxid
          /\ status[b] \in {"idle", "active"} => endedOn[b] = {}
          /\ status[b] = "ended" => endedOn[b] = QE
    /\ \A b, c \in Backend : gxid[b] = gxid[c] /\ gxid[b] # 0 => b = c

\* Locks and waits end with the transaction; a backend is queued once.
LockInv ==
    /\ \A b \in Backend, q \in QE :
          want[b][q] # "none" \/ writer[q] = b =>
             status[b] \in {"active", "ending"} /\ q \notin endedOn[b]
    /\ \A i \in DOMAIN relQueue : status[Waiter(i)] = "active" /\ rel[Waiter(i)] # "excl"
    /\ \A i, j \in DOMAIN relQueue : Waiter(i) = Waiter(j) => i = j

\* The process of w on node s waits for h.
WaitsFor(w, h, s, solid) ==
    \/ s \in QE /\ solid /\ want[w][s] = "xid" /\ writer[s] = h
    \/ s \in QE /\ ~ solid /\ want[w][s] = "tuple" /\ tuplock[s] = h
    \/ /\ s = Coord /\ solid /\ w # h /\ rel[w] = "none"
       /\ \E i \in DOMAIN relQueue : Waiter(i) = w /\ Conflicts(rel[h], Mode(i))

\* The waits the detector can see, as they are now.
Lasting ==
    {e \in Edge : \E w, h \in Backend :
        /\ gxid[w] = From(e) /\ gxid[h] = To(e)
        /\ status[w] = "active"
        /\ WaitsFor(w, h, Segment(e), Solid(e))}

\* The waits the detector has read, and those of them that are over by now.
Collected == {e \in UNION {rows[s] : s \in Seg} : From(e) # 0 /\ To(e) # 0}
Stale     == {e \in Collected : e \notin Lasting}

\* The holder of e is ending, or has the row that its tuple lock was for.
Over(e) ==
    \A b \in Backend :
        gxid[b] = To(e) => \/ status[b] # "active"
                           \/ ~ Solid(e) /\ Segment(e) \in QE /\ writer[Segment(e)] = b

\* A wait that has to be there for e to persist.
Follows(e, f) == From(f) = To(e) /\ (Solid(e) \/ Segment(f) = Segment(e))

\* The phases of a round.
RoundInv ==
    /\ pc \notin {"collect", "build"} => rows = [s \in Seg |-> {}]
    /\ \A s \in pending : rows[s] = {}
    /\ pc = "collect" => \A b \in Backend, q \in QE : status[b] = "ending" => want[b][q] = "none"
    /\ pc \in {"sleep", "collect", "build"} => victims = {}
    /\ pc \in {"cancel", "signal"} => victims # {}
    /\ pc # "break" => graph = {}
    /\ pc = "signal" => pid \in Backend /\ gxid[pid] = NextVictim

\* Waits that were read and are over do not make a deadlock.
RowsInv ==
    /\ rows \in [Seg -> SUBSET (Seg \X (Vid \cup {0}) \X (Vid \cup {0}) \X BOOLEAN)]
    /\ Collected \subseteq Edge
    /\ \A e \in Collected : From(e) < nextGxid /\ To(e) < nextGxid
    /\ \A e \in Stale : Over(e)
    /\ \A S \in SUBSET Stale : Persists(S) => S = {}

\* What is left of the graph is a deadlock, of transactions older than the victims.
BreakInv ==
    /\ graph \subseteq Lasting
    /\ Persists(graph)
    /\ \A v \in victims, e \in graph : From(e) < v /\ To(e) < v

\* Every victim is in a deadlock that the victims before it leave alone.
VictimInv ==
    \A v \in victims :
        /\ v \in Vid
        /\ \E E \in SUBSET Lasting :
              /\ Persists(E) /\ HasOut(E, v)
              /\ \A u \in victims : v < u => ~ HasIn(E, u) /\ ~ HasOut(E, u)

GddInv ==
    /\ TypeOK
    /\ XactInv
    /\ LockInv
    /\ RoundInv
    /\ RowsInv
    /\ BreakInv
    /\ VictimInv

-----------------------------------------------------------------------------
(* Operators                                                                *)

\* A non-empty set of naturals below a bound has a largest element.
LEMMA MaxFact ==
    ASSUME NEW S \in SUBSET Nat, S # {}, NEW n \in Nat, \A x \in S : x < n
    PROVE  LET m == CHOOSE v \in S : \A w \in S : w <= v
           IN  m \in S /\ \A w \in S : w <= m
<1> DEFINE R == {ss \in Nat \X Nat : ss[1] < ss[2]}
           D == {d \in Nat : n - d \in S}
<1>1. IsWellFoundedOn(R, Nat)
    BY NatLessThanWellFounded DEF OpToRel
<1>2. D # {} /\ D \subseteq Nat
  <2>1. PICK x \in S : TRUE
      OBVIOUS
  <2>2. n - x \in Nat /\ n - (n - x) = x
      BY <2>1
  <2> QED
      BY <2>1, <2>2
<1> HIDE DEF R
<1>3. PICK d \in D : \A y \in D : ~ (<<y, d>> \in R)
    BY <1>1, <1>2, WFMin
<1>4. n - d \in S /\ d \in Nat
    BY <1>3
<1>5. ASSUME NEW w \in S PROVE w <= n - d
  <2>1. w \in Nat /\ w < n /\ n - w \in Nat /\ n - (n - w) = w
      OBVIOUS
  <2>2. n - w \in D
      BY <2>1
  <2>3. ~ (<<n - w, d>> \in R)
      BY <1>3, <2>2
  <2>4. ~ (n - w < d)
      BY <1>4, <2>1, <2>3 DEF R
  <2> QED
      BY <1>4, <2>1, <2>4
<1>6. \E v \in S : \A w \in S : w <= v
    BY <1>4, <1>5
<1> QED
    BY <1>6

\* RemoveAt keeps the other entries.
LEMMA RemoveAtFact ==
    ASSUME NEW T, NEW s \in Seq(T), NEW i \in DOMAIN s
    PROVE  /\ RemoveAt(s, i) \in Seq(T)
           /\ DOMAIN RemoveAt(s, i) = 1 .. Len(s) - 1
           /\ \A k \in 1 .. Len(s) - 1 : RemoveAt(s, i)[k] = IF k < i THEN s[k] ELSE s[k + 1]
<1> DEFINE front == SubSeq(s, 1, i - 1)
           back  == SubSeq(s, i + 1, Len(s))
<1>1. i \in 1 .. Len(s) /\ Len(s) \in Nat
    OBVIOUS
<1>2. /\ front \in Seq(T) /\ Len(front) = i - 1
      /\ back \in Seq(T) /\ Len(back) = Len(s) - i
      /\ \A k \in 1 .. i - 1 : front[k] = s[k]
      /\ \A k \in 1 .. Len(s) - i : back[k] = s[i + k]
    BY <1>1
<1>3. RemoveAt(s, i) = front \o back
    BY DEF RemoveAt
<1> HIDE DEF front, back
<1>4. /\ front \o back \in Seq(T)
      /\ Len(front \o back) = Len(s) - 1
    BY <1>1, <1>2
<1>5. ASSUME NEW k \in 1 .. Len(s) - 1
      PROVE  (front \o back)[k] = IF k < i THEN s[k] ELSE s[k + 1]
  <2>1. CASE k < i
      BY <1>1, <1>2, <2>1
  <2>2. CASE ~ (k < i)
    <3>1. k - (i - 1) \in 1 .. Len(s) - i /\ i + (k - (i - 1)) = k + 1
        BY <1>1, <2>2
    <3>2. (front \o back)[k] = back[k - (i - 1)]
        BY <1>1, <1>2, <2>2
    <3> QED
        BY <1>2, <2>2, <3>1, <3>2
  <2> QED
      BY <2>1, <2>2
<1> QED
    BY <1>3, <1>4, <1>5

\* The core of a graph persists.
LEMMA CorePersists ==
    ASSUME NEW g
    PROVE  Core(g) \subseteq g /\ Persists(Core(g))
<1>1. ASSUME NEW e \in Core(g)
      PROVE  IF Solid(e) THEN HasOut(Core(g), To(e)) ELSE HasLocalOut(Core(g), Segment(e), To(e))
  <2>1. PICK E \in SUBSET g : Closed(E) /\ e \in E
      BY DEF Core
  <2>2. E \subseteq Core(g)
      BY <2>1 DEF Core
  <2>3. IF Solid(e) THEN HasOut(E, To(e)) ELSE HasLocalOut(E, Segment(e), To(e))
      BY <2>1 DEF Closed, Persists
  <2> QED
      BY <2>2, <2>3 DEF HasOut, HasLocalOut
<1> QED
    BY <1>1 DEF Persists, Core

\* In a set of waits that persists every wait is followed by another.
LEMMA PersistsFollows ==
    ASSUME NEW E
    PROVE  Persists(E) <=> \A e \in E : \E f \in E : Follows(e, f)
<1>1. ASSUME NEW e \in E
      PROVE  (IF Solid(e) THEN HasOut(E, To(e)) ELSE HasLocalOut(E, Segment(e), To(e)))
                <=> \E f \in E : Follows(e, f)
    BY DEF HasOut, HasLocalOut, Follows
<1> QED
    BY <1>1 DEF Persists

\* What is in the queue of the relation.
Entry == Backend \X {"share", "excl"}

\* The entries of the queue when one of them leaves.
LEMMA Removed ==
    ASSUME NEW s \in Seq(Entry), NEW i \in DOMAIN s
    PROVE  /\ RemoveAt(s, i) \in Seq(Entry)
           /\ \A k \in DOMAIN s : k # i => \E j \in DOMAIN RemoveAt(s, i) : RemoveAt(s, i)[j] = s[k]
           /\ \A j \in DOMAIN RemoveAt(s, i) : \E k \in DOMAIN s : k # i /\ RemoveAt(s, i)[j] = s[k]
           /\ (\A j, k \in DOMAIN s : s[j][1] = s[k][1] => j = k) =>
                 \A j, k \in DOMAIN RemoveAt(s, i) :
                    RemoveAt(s, i)[j][1] = RemoveAt(s, i)[k][1] => j = k
<1> DEFINE r == RemoveAt(s, i)
<1>1. /\ r \in Seq(Entry) /\ DOMAIN r = 1 .. Len(s) - 1
      /\ \A k \in 1 .. Len(s) - 1 : r[k] = IF k < i THEN s[k] ELSE s[k + 1]
    BY RemoveAtFact
<1>2. i \in 1 .. Len(s) /\ Len(s) \in Nat /\ DOMAIN s = 1 .. Len(s)
    OBVIOUS
<1> HIDE DEF r
<1>3. ASSUME NEW k \in DOMAIN s, k # i PROVE \E j \in DOMAIN r : r[j] = s[k]
  <2>1. CASE k < i
    <3>1. k \in 1 .. Len(s) - 1
        BY <1>2, <2>1
    <3>2. k \in DOMAIN r /\ r[k] = s[k]
        BY <1>1, <2>1, <3>1
    <3> QED
        BY <3>2
  <2>2. CASE i < k
    <3>1. k - 1 \in 1 .. Len(s) - 1 /\ ~ (k - 1 < i) /\ (k - 1) + 1 = k
        BY <1>2, <2>2
    <3>2. r[k - 1] = s[k]
        BY <1>1, <3>1
    <3> QED
        BY <1>1, <3>1, <3>2
  <2> QED
      BY <1>2, <1>3, <2>1, <2>2
<1>4. ASSUME NEW j \in DOMAIN r PROVE \E k \in DOMAIN s : k # i /\ r[j] = s[k]
  <2>1. j \in 1 .. Len(s) - 1 /\ j \in DOMAIN s /\ j + 1 \in DOMAIN s
      BY <1>1, <1>2
  <2>2. CASE j < i
      BY <1>1, <1>2, <2>1, <2>2
  <2>3. CASE ~ (j < i)
    <3>1. r[j] = s[j + 1] /\ j + 1 # i
        BY <1>1, <1>2, <2>1, <2>3
    <3> QED
        BY <2>1, <3>1
  <2> QED
      BY <2>2, <2>3
<1>5. ASSUME \A j, k \in DOMAIN s : s[j][1] = s[k][1] => j = k,
             NEW j \in DOMAIN r, NEW k \in DOMAIN r, r[j][1] = r[k][1]
      PROVE  j = k
  <2>1. j \in 1 .. Len(s) /\ j + 1 \in 1 .. Len(s) /\ k \in 1 .. Len(s) /\ k + 1 \in 1 .. Len(s)
      BY <1>1, <1>2
  <2>2. PICK x \in DOMAIN s : r[j] = s[x] /\ x = IF j < i THEN j ELSE j + 1
      BY <1>1, <1>2, <2>1
  <2>3. PICK y \in DOMAIN s : r[k] = s[y] /\ y = IF k < i THEN k ELSE k + 1
      BY <1>1, <1>2, <2>1
  <2>4. x = y
      BY <1>5, <2>2, <2>3
  <2> QED
      BY <1>2, <2>1, <2>2, <2>3, <2>4
<1> QED
    BY <1>1, <1>3, <1>4, <1>5 DEF r

\* No backend is in the queue twice.
OnceEach(s) == \A j, k \in DOMAIN s : s[j][1] = s[k][1] => j = k

\* Queue r is queue s with entry x added.
QueuePlus(s, x, r) ==
    /\ r \in Seq(Entry)
    /\ \A k \in DOMAIN s : \E j \in DOMAIN r : r[j] = s[k]
    /\ \A j \in DOMAIN r : r[j] = x \/ \E k \in DOMAIN s : r[j] = s[k]
    /\ OnceEach(r)

\* The entries of the queue when one comes in at either end.
LEMMA Entered ==
    ASSUME NEW s \in Seq(Entry), NEW x \in Entry, OnceEach(s),
           \A k \in DOMAIN s : s[k][1] # x[1],
           NEW r, r = Append(s, x) \/ r = <<x>> \o s
    PROVE  QueuePlus(s, x, r)
<1>1. Len(s) \in Nat /\ DOMAIN s = 1 .. Len(s)
    OBVIOUS
<1>2. /\ r \in Seq(Entry) /\ DOMAIN r = 1 .. Len(s) + 1
      /\ \/ r[Len(s) + 1] = x /\ \A k \in 1 .. Len(s) : r[k] = s[k]
         \/ r[1] = x /\ \A k \in 1 .. Len(s) : r[k + 1] = s[k]
  <2>1. CASE r = Append(s, x)
      BY <1>1, <2>1
  <2>2. CASE r = <<x>> \o s
    <3>1. <<x>> \in Seq(Entry) /\ Len(<<x>>) = 1 /\ <<x>>[1] = x
        OBVIOUS
    <3> DEFINE one == <<x>>
    <3> HIDE DEF one
    <3>2. r = one \o s /\ one \in Seq(Entry) /\ Len(one) = 1 /\ one[1] = x
        BY <2>2, <3>1 DEF one
    <3>3. r \in Seq(Entry) /\ Len(r) = Len(s) + 1 /\ r[1] = x
        BY <1>1, <3>2
    <3>4. ASSUME NEW k \in 1 .. Len(s) PROVE r[k + 1] = s[k]
      <4>1. k + 1 \in 1 .. Len(s) + 1 /\ ~ (k + 1 <= 1) /\ (k + 1) - 1 = k
          BY <1>1
      <4>2. r[k + 1] = s[(k + 1) - 1]
          BY <1>1, <3>2, <4>1
      <4> QED
          BY <4>1, <4>2
    <3> QED
        BY <1>1, <3>3, <3>4
  <2> QED
      BY <2>1, <2>2
<1>3. CASE r[Len(s) + 1] = x /\ \A k \in 1 .. Len(s) : r[k] = s[k]
  <2>1. \A j \in DOMAIN r : j = Len(s) + 1 \/ j \in DOMAIN s
      BY <1>1, <1>2
  <2>2. DOMAIN s \subseteq DOMAIN r /\ \A k \in DOMAIN s : r[k] = s[k]
      BY <1>1, <1>2, <1>3
  <2> QED
      BY <1>2, <1>3, <2>1, <2>2 DEF QueuePlus, OnceEach
<1>4. CASE r[1] = x /\ \A k \in 1 .. Len(s) : r[k + 1] = s[k]
  <2>2. \A j \in DOMAIN r : j = 1 \/ (j - 1 \in DOMAIN s /\ (j - 1) + 1 = j)
      BY <1>1, <1>2
  <2>3. \A j \in DOMAIN r : j = 1 \/ (j - 1 \in DOMAIN s /\ r[j] = s[j - 1])
      BY <1>1, <1>4, <2>2
  <2>4. \A k \in DOMAIN s : k + 1 \in DOMAIN r /\ r[k + 1] = s[k]
      BY <1>1, <1>2, <1>4
  <2>5. \A j, k \in DOMAIN r : j - 1 = k - 1 => j = k
      BY <1>2
  <2>6. \A k \in DOMAIN s : \E j \in DOMAIN r : r[j] = s[k]
      BY <2>4
  <2>7. \A j \in DOMAIN r : r[j] = x \/ \E k \in DOMAIN s : r[j] = s[k]
      BY <1>4, <2>3
  <2>8. ASSUME NEW j \in DOMAIN r, NEW k \in DOMAIN r, r[j][1] = r[k][1]
        PROVE  j = k
    <3>1. CASE j = 1 \/ k = 1
        BY <1>4, <2>3, <2>8, <3>1
    <3>2. CASE j # 1 /\ k # 1
      <4>1. s[j - 1][1] = s[k - 1][1] /\ j - 1 \in DOMAIN s /\ k - 1 \in DOMAIN s
          BY <2>3, <2>8, <3>2
      <4>2. j - 1 = k - 1
          BY <4>1 DEF OnceEach
      <4> QED
          BY <2>5, <4>2
    <3> QED
        BY <3>1, <3>2
  <2> QED
      BY <1>2, <2>6, <2>7, <2>8 DEF QueuePlus, OnceEach
<1> QED
    BY <1>2, <1>3, <1>4

-----------------------------------------------------------------------------
(* Transactions and locks                                                   *)

\* The steps of the transactions and the lock manager.
XactStep ==
    \/ \E b \in Backend :
          \/ Begin(b) \/ Commit(b) \/ EndGxact(b) \/ ReleaseRelation(b)
          \/ \E m \in RelModes : LockRelation(b, m)
          \/ \E q \in QE : Update(b, q) \/ GetTupleLock(b, q) \/ GetRow(b, q) \/ EndOnSegment(b, q)
    \/ \E i \in DOMAIN relQueue : GrantRelation(i)

BaseInv == TypeOK /\ XactInv /\ LockInv

\* Undisturbed, every step is one of a transaction or one of the detector.
LEMMA StepCases ==
    ASSUME Undisturbed, Next
    PROVE  XactStep \/ Detector
BY DEF Undisturbed, Next, Progress, XactStep, RollbackToSavepoint, UserCancel

\* Ids are numbers.
LEMMA GxidNat ==
    ASSUME TypeOK
    PROVE  /\ nextGxid \in Nat
           /\ \A b \in Backend : gxid[b] \in Nat /\ (gxid[b] # 0 => gxid[b] \in Vid)
<1>1. gxid \in [Backend -> Vid \cup {0}] /\ nextGxid \in Nat
    BY DEF TypeOK
<1>2. Vid \subseteq Nat
    BY GraphAssumption
<1>3. ASSUME NEW b \in Backend PROVE gxid[b] \in Nat /\ (gxid[b] # 0 => gxid[b] \in Vid)
  <2>1. gxid[b] \in Vid \/ gxid[b] = 0
      BY <1>1
  <2>2. 0 \in Nat
      OBVIOUS
  <2> QED
      BY <1>2, <2>1, <2>2, Zenon
<1> QED
    BY <1>1, <1>3

\* Types and locks when a transaction begins or goes on to its end.
LEMMA BaseStatus ==
    ASSUME BaseInv, NEW b \in Backend, Begin(b) \/ Commit(b) \/ EndGxact(b) \/ ReleaseRelation(b)
    PROVE  BaseInv'
<1>t. TypeOK /\ XactInv /\ LockInv
    BY DEF BaseInv
<1>0. Vid \subseteq Nat \ {0} /\ NoBackend \notin Backend
    BY GraphAssumption, GddAssumption
<1>1. CASE Begin(b)
  <2>1. TypeOK'
      BY <1>t, <1>0, <1>1 DEF Begin, TypeOK, lockVars, gddVars
  <2>2. XactInv'
    <3>1. nextGxid \in Nat /\ \A c \in Backend : gxid[c] \in Nat
        BY <1>t, GxidNat
    <3>2. \A c \in Backend : gxid'[c] = IF c = b THEN nextGxid ELSE gxid[c]
        BY <1>t, <1>1 DEF Begin, TypeOK
    <3>3. nextGxid' = nextGxid + 1 /\ nextGxid # 0
        BY <1>0, <1>1 DEF Begin
    <3> QED
        BY <1>t, <1>1, <3>1, <3>2, <3>3 DEF Begin, TypeOK, XactInv
  <2>3. LockInv'
      BY <1>t, <1>0, <1>1 DEF Begin, TypeOK, LockInv, Waiter, lockVars, gddVars
  <2> QED
      BY <2>1, <2>2, <2>3 DEF BaseInv
<1>2. CASE Commit(b)
  <2>1. TypeOK'
      BY <1>t, <1>0, <1>2 DEF Commit, TypeOK, lockVars, gddVars
  <2>2. XactInv'
      BY <1>t, <1>0, <1>2 DEF Commit, TypeOK, XactInv, lockVars, gddVars
  <2>3. LockInv'
      BY <1>t, <1>0, <1>2 DEF Commit, TypeOK, LockInv, Waiting, Queued, Waiter, lockVars, gddVars
  <2> QED
      BY <2>1, <2>2, <2>3 DEF BaseInv
<1>3. CASE EndGxact(b)
  <2>1. TypeOK'
      BY <1>t, <1>0, <1>3 DEF EndGxact, TypeOK, lockVars, gddVars
  <2>2. XactInv'
    <3>1. \A c \in Backend : gxid[c] \in Nat
        BY <1>t, GxidNat
    <3>2. 0 < nextGxid /\ nextGxid' = nextGxid
        BY <1>t, <1>3, <3>1 DEF EndGxact, TypeOK, XactInv
    <3> QED
        BY <1>t, <1>3, <3>2 DEF EndGxact, TypeOK, XactInv
  <2>3. LockInv'
      BY <1>t, <1>0, <1>3 DEF EndGxact, TypeOK, LockInv, Waiter, lockVars, gddVars
  <2> QED
      BY <2>1, <2>2, <2>3 DEF BaseInv
<1>4. CASE ReleaseRelation(b)
  <2>1. TypeOK'
      BY <1>t, <1>0, <1>4 DEF ReleaseRelation, TypeOK, gddVars
  <2>2. XactInv'
      BY <1>t, <1>0, <1>4 DEF ReleaseRelation, TypeOK, XactInv, gddVars
  <2>3. LockInv'
      BY <1>t, <1>0, <1>4 DEF ReleaseRelation, TypeOK, LockInv, Waiter, gddVars
  <2> QED
      BY <2>1, <2>2, <2>3 DEF BaseInv
<1> QED
    BY <1>1, <1>2, <1>3, <1>4

\* Types and locks when a row is updated, waited for or let go.
LEMMA BaseRow ==
    ASSUME BaseInv, NEW b \in Backend, NEW q \in QE,
           Update(b, q) \/ GetTupleLock(b, q) \/ GetRow(b, q) \/ EndOnSegment(b, q)
    PROVE  BaseInv'
<1>t. TypeOK /\ XactInv /\ LockInv
    BY DEF BaseInv
<1>0. Vid \subseteq Nat \ {0} /\ NoBackend \notin Backend
    BY GraphAssumption, GddAssumption
<1>1. CASE Update(b, q)
  <2>1. TypeOK'
    <3>1. CASE writer[q] = NoBackend
        BY <1>t, <1>0, <1>1, <3>1 DEF Update, TypeOK, xactVars, gddVars
    <3>2. CASE writer[q] # NoBackend /\ tuplock[q] = NoBackend
      <4>1. /\ want[b][q] = "none" /\ writer[q] # b /\ writer' = writer /\ tuplock' = [tuplock EXCEPT ![q] = b]
            /\ want' = [want EXCEPT ![b][q] = "xid"]
          BY <1>1, <3>2 DEF Update
      <4>2. want' \in [Backend -> [QE -> {"none", "tuple", "xid"}]]
          BY <1>t, <4>1 DEF TypeOK
      <4>3. \A c \in Backend, p \in QE : want'[c][p] = IF c = b /\ p = q THEN "xid" ELSE want[c][p]
          BY <1>t, <4>1 DEF TypeOK
      <4>4. tuplock' \in [QE -> Backend \cup {NoBackend}]
          BY <1>t, <4>1 DEF TypeOK
      <4>5. \A c \in Backend, p \in QE : /\ want'[c][p] # "none" => writer'[p] # c
                                         /\ want'[c][p] = "xid" <=> tuplock'[p] = c
          BY <1>t, <1>0, <3>2, <4>1, <4>3 DEF TypeOK
      <4> QED
          BY <1>t, <1>1, <4>1, <4>2, <4>4, <4>5 DEF Update, TypeOK, xactVars, gddVars
    <3>3. CASE writer[q] # NoBackend /\ tuplock[q] # NoBackend
      <4>1. /\ want[b][q] = "none" /\ writer[q] # b /\ writer' = writer /\ tuplock' = tuplock
            /\ want' = [want EXCEPT ![b][q] = "tuple"]
          BY <1>1, <3>3 DEF Update
      <4>2. want' \in [Backend -> [QE -> {"none", "tuple", "xid"}]]
          BY <1>t, <4>1 DEF TypeOK
      <4>3. \A c \in Backend, p \in QE : want'[c][p] = IF c = b /\ p = q THEN "tuple" ELSE want[c][p]
          BY <1>t, <4>1 DEF TypeOK
      <4>4. tuplock' \in [QE -> Backend \cup {NoBackend}]
          BY <1>t, <4>1 DEF TypeOK
      <4>5. \A c \in Backend, p \in QE : /\ want'[c][p] # "none" => writer'[p] # c
                                         /\ want'[c][p] = "xid" <=> tuplock'[p] = c
          BY <1>t, <1>0, <3>3, <4>1, <4>3 DEF TypeOK
      <4> QED
          BY <1>t, <1>1, <4>1, <4>2, <4>4, <4>5 DEF Update, TypeOK, xactVars, gddVars
    <3> QED
        BY <3>1, <3>2, <3>3
  <2>2. XactInv'
      BY <1>t, <1>0, <1>1 DEF Update, XactInv, xactVars
  <2>3. LockInv'
      BY <1>t, <1>0, <1>1 DEF Update, TypeOK, XactInv, LockInv, Waiter, xactVars
  <2> QED
      BY <2>1, <2>2, <2>3 DEF BaseInv
<1>2. CASE GetTupleLock(b, q)
  <2>1. TypeOK'
      BY <1>t, <1>0, <1>2 DEF GetTupleLock, TypeOK, xactVars, gddVars
  <2>2. XactInv'
      BY <1>t, <1>0, <1>2 DEF GetTupleLock, XactInv, xactVars
  <2>3. LockInv'
      BY <1>t, <1>0, <1>2 DEF GetTupleLock, TypeOK, LockInv, Waiter, xactVars
  <2> QED
      BY <2>1, <2>2, <2>3 DEF BaseInv
<1>3. CASE GetRow(b, q)
  <2>1. TypeOK'
      BY <1>t, <1>0, <1>3 DEF GetRow, TypeOK, xactVars, gddVars
  <2>2. XactInv'
      BY <1>t, <1>0, <1>3 DEF GetRow, XactInv, xactVars
  <2>3. LockInv'
      BY <1>t, <1>0, <1>3 DEF GetRow, TypeOK, LockInv, Waiter, xactVars
  <2> QED
      BY <2>1, <2>2, <2>3 DEF BaseInv
<1>4. CASE EndOnSegment(b, q)
  <2>1. TypeOK'
      BY <1>t, <1>0, <1>4 DEF EndOnSegment, TypeOK, gddVars
  <2>2. XactInv'
      BY <1>t, <1>0, <1>4 DEF EndOnSegment, TypeOK, XactInv
  <2>3. LockInv'
      BY <1>t, <1>0, <1>4 DEF EndOnSegment, TypeOK, LockInv, Waiter
  <2> QED
      BY <2>1, <2>2, <2>3 DEF BaseInv
<1> QED
    BY <1>1, <1>2, <1>3, <1>4

\* Types and locks when the relation is asked for or granted.
LEMMA BaseRelation ==
    ASSUME BaseInv,
           \/ \E b \in Backend, m \in RelModes : LockRelation(b, m)
           \/ \E i \in DOMAIN relQueue : GrantRelation(i)
    PROVE  BaseInv'
<1>t. TypeOK /\ XactInv /\ LockInv
    BY DEF BaseInv
<1>0. RelModes \subseteq {"share", "excl"}
    BY GddAssumption
<1>1. ASSUME NEW b \in Backend, NEW m \in RelModes, LockRelation(b, m) PROVE BaseInv'
  <2>0. m \in {"share", "excl"} /\ <<b, m>> \in Entry
      BY <1>0 DEF Entry
  <2> DEFINE ahead == IF rel[b] = "none" THEN DOMAIN relQueue ELSE {}
  <2>q. /\ relQueue \in Seq(Entry)
        /\ \A j, k \in DOMAIN relQueue : relQueue[j][1] = relQueue[k][1] => j = k
        /\ \A k \in DOMAIN relQueue : relQueue[k][1] # b
      BY <1>t, <1>1 DEF TypeOK, LockInv, LockRelation, Waiting, Queued, Waiter, Entry
  <2>c. \/ Grantable(b, m, ahead) /\ rel' = [rel EXCEPT ![b] = m] /\ UNCHANGED <<relQueue, status>>
        \/ /\ relQueue' = Append(relQueue, <<b, m>>) \/ relQueue' = <<<<b, m>>>> \o relQueue
           /\ UNCHANGED <<rel, status>>
        \/ status' = [status EXCEPT ![b] = "ending"] /\ UNCHANGED <<rel, relQueue>>
      BY <1>1 DEF LockRelation
  <2>u. /\ UNCHANGED <<nextGxid, gxid, endedOn, writer, tuplock, want, gddVars>>
        /\ status[b] = "active" /\ ~ Waiting(b)
      BY <1>1 DEF LockRelation
  <2>1. CASE Grantable(b, m, ahead) /\ rel' = [rel EXCEPT ![b] = m] /\ UNCHANGED <<relQueue, status>>
    <3>1. TypeOK'
        BY <1>t, <2>0, <2>u, <2>1 DEF TypeOK, Grantable, Conflicts, gddVars
    <3>2. XactInv'
        BY <1>t, <2>u, <2>1 DEF XactInv
    <3>3. \A k \in DOMAIN relQueue : rel'[relQueue[k][1]] = rel[relQueue[k][1]]
        BY <1>t, <2>q, <2>1 DEF TypeOK
    <3>4. LockInv'
        BY <1>t, <2>u, <2>1, <3>3 DEF LockInv, Waiter
    <3> QED
        BY <3>1, <3>2, <3>4 DEF BaseInv
  <2>2. CASE /\ relQueue' = Append(relQueue, <<b, m>>) \/ relQueue' = <<<<b, m>>>> \o relQueue
             /\ UNCHANGED <<rel, status>>
    <3>1. /\ relQueue' \in Seq(Entry)
          /\ \A j \in DOMAIN relQueue' : relQueue'[j] = <<b, m>> \/ \E k \in DOMAIN relQueue : relQueue'[j] = relQueue[k]
          /\ \A j, k \in DOMAIN relQueue' : relQueue'[j][1] = relQueue'[k][1] => j = k
      <4>1. \A k \in DOMAIN relQueue : relQueue[k][1] # <<b, m>>[1]
          BY <2>q
      <4> DEFINE r == relQueue'
                 x == <<b, m>>
      <4>2. r = Append(relQueue, x) \/ r = <<x>> \o relQueue
          BY <2>2
      <4>x. x \in Entry /\ \A k \in DOMAIN relQueue : relQueue[k][1] # x[1]
          BY <2>0, <4>1
      <4> HIDE DEF r, x
      <4>3. OnceEach(relQueue)
          BY <2>q DEF OnceEach
      <4>4. QueuePlus(relQueue, x, r)
          BY <2>q, <4>2, <4>3, <4>x, Entered
      <4> QED
          BY <4>4 DEF r, x, QueuePlus, OnceEach
    <3>2. TypeOK'
        BY <1>t, <2>u, <2>2, <3>1 DEF TypeOK, gddVars, Entry
    <3>3. XactInv'
        BY <1>t, <2>u, <2>2 DEF XactInv
    <3>4. rel[b] # "excl"
        BY <1>1 DEF LockRelation
    <3>5. \A j \in DOMAIN relQueue' : /\ status[relQueue'[j][1]] = "active"
                                      /\ rel[relQueue'[j][1]] # "excl"
        BY <1>t, <2>u, <3>1, <3>4 DEF LockInv, Waiter
    <3>6. LockInv'
        BY <1>t, <2>u, <2>2, <3>1, <3>5 DEF LockInv, Waiter
    <3> QED
        BY <3>2, <3>3, <3>6 DEF BaseInv
  <2>3. CASE status' = [status EXCEPT ![b] = "ending"] /\ UNCHANGED <<rel, relQueue>>
    <3>1. TypeOK'
        BY <1>t, <2>u, <2>3 DEF TypeOK, gddVars
    <3>2. XactInv'
        BY <1>t, <2>u, <2>3 DEF TypeOK, XactInv
    <3>3. LockInv'
        BY <1>t, <2>u, <2>3 DEF TypeOK, LockInv, Waiting, Queued, Waiter
    <3> QED
        BY <3>1, <3>2, <3>3 DEF BaseInv
  <2> QED
      BY <2>c, <2>1, <2>2, <2>3
<1>2. ASSUME NEW i \in DOMAIN relQueue, GrantRelation(i) PROVE BaseInv'
  <2>q. /\ relQueue \in Seq(Entry)
        /\ \A j, k \in DOMAIN relQueue : relQueue[j][1] = relQueue[k][1] => j = k
      BY <1>t DEF TypeOK, LockInv, Waiter, Entry
  <2>1. /\ relQueue' \in Seq(Entry)
        /\ \A j \in DOMAIN relQueue' : \E k \in DOMAIN relQueue : k # i /\ relQueue'[j] = relQueue[k]
        /\ \A j, k \in DOMAIN relQueue' : relQueue'[j][1] = relQueue'[k][1] => j = k
    <3>1. relQueue' = RemoveAt(relQueue, i)
        BY <1>2 DEF GrantRelation
    <3>2. /\ RemoveAt(relQueue, i) \in Seq(Entry)
          /\ \A j \in DOMAIN RemoveAt(relQueue, i) :
                \E k \in DOMAIN relQueue : k # i /\ RemoveAt(relQueue, i)[j] = relQueue[k]
          /\ \A j, k \in DOMAIN RemoveAt(relQueue, i) :
                RemoveAt(relQueue, i)[j][1] = RemoveAt(relQueue, i)[k][1] => j = k
        BY <2>q, Removed
    <3> QED
        BY <3>1, <3>2, Zenon
  <2>2. relQueue[i] \in Backend \X {"share", "excl"}
      BY <2>q DEF Entry
  <2>3. /\ UNCHANGED <<xactVars, writer, tuplock, want, gddVars>>
        /\ rel' = [rel EXCEPT ![relQueue[i][1]] = relQueue[i][2]]
        /\ \A c \in Backend \ {relQueue[i][1]} : ~ Conflicts(rel[c], relQueue[i][2])
      BY <1>2 DEF GrantRelation, Grantable, Waiter, Mode
  <2>4. TypeOK'
      BY <1>t, <2>1, <2>2, <2>3 DEF TypeOK, Conflicts, xactVars, gddVars, Entry
  <2>5. XactInv'
      BY <1>t, <2>3 DEF XactInv, xactVars
  <2>6. \A k \in DOMAIN relQueue : k # i => /\ status'[relQueue[k][1]] = "active"
                                           /\ rel'[relQueue[k][1]] # "excl"
    <3> SUFFICES ASSUME NEW k \in DOMAIN relQueue, k # i
                 PROVE  status'[relQueue[k][1]] = "active" /\ rel'[relQueue[k][1]] # "excl"
        OBVIOUS
    <3>1. relQueue[k][1] # relQueue[i][1] /\ relQueue[k][1] \in Backend
        BY <2>q DEF Entry
    <3>2. rel'[relQueue[k][1]] = rel[relQueue[k][1]]
        BY <1>t, <2>3, <3>1 DEF TypeOK
    <3> QED
        BY <1>t, <2>3, <3>2 DEF LockInv, Waiter, xactVars
  <2>7. LockInv'
      BY <1>t, <2>1, <2>3, <2>6 DEF LockInv, Waiter, xactVars
  <2> QED
      BY <2>4, <2>5, <2>7 DEF BaseInv
<1> QED
    BY <1>1, <1>2

-----------------------------------------------------------------------------
(* How waits end                                                            *)

\* Who waits in a wait that lasts, and for whom.
LEMMA WhoWaits ==
    ASSUME BaseInv, NEW e \in Lasting
    PROVE  /\ e \in Edge /\ From(e) \in Vid /\ To(e) \in Vid /\ From(e) # 0 /\ To(e) # 0
           /\ From(e) < nextGxid /\ To(e) < nextGxid
           /\ \E w, h \in Backend :
                 /\ gxid[w] = From(e) /\ gxid[h] = To(e) /\ gxid[w] # 0 /\ gxid[h] # 0
                 /\ status[w] = "active" /\ WaitsFor(w, h, Segment(e), Solid(e))
<1>1. e \in Edge /\ From(e) \in Vid /\ To(e) \in Vid
    BY DEF Lasting, Edge, From, To
<1>2. From(e) # 0 /\ To(e) # 0
    BY <1>1, GraphAssumption
<1> QED
    BY <1>1, <1>2 DEF Lasting, BaseInv, XactInv

\* A wait as the detector sees it has an edge of its own.
LEMMA WaitsLast ==
    ASSUME BaseInv, NEW w \in Backend, NEW h \in Backend, NEW s \in Seg, NEW solid \in BOOLEAN,
           gxid[w] # 0, gxid[h] # 0, status[w] = "active", WaitsFor(w, h, s, solid)
    PROVE  <<s, gxid[w], gxid[h], solid>> \in Lasting
<1> DEFINE e == <<s, gxid[w], gxid[h], solid>>
<1>1. gxid[w] \in Vid /\ gxid[h] \in Vid
    BY GxidNat DEF BaseInv
<1>2. w # h
    BY GddAssumption DEF WaitsFor, BaseInv, TypeOK
<1>3. gxid[w] # gxid[h]
    BY <1>2 DEF BaseInv, XactInv
<1>4. e \in Edge /\ Segment(e) = s /\ From(e) = gxid[w] /\ To(e) = gxid[h] /\ Solid(e) = solid
    BY <1>1, <1>3 DEF Edge, Segment, From, To, Solid
<1> HIDE DEF e
<1> QED
    BY <1>4 DEF Lasting, e

\* Nobody waits on where a wait is over.
LEMMA OverFree ==
    ASSUME BaseInv, NEW e, Over(e), NEW f \in Lasting, Follows(e, f)
    PROVE  FALSE
<1>1. PICK w, h \in Backend : /\ gxid[w] = From(f) /\ status[w] = "active"
                              /\ WaitsFor(w, h, Segment(f), Solid(f))
    BY WhoWaits
<1>2. gxid[w] = To(e) /\ (Solid(e) \/ Segment(f) = Segment(e))
    BY <1>1 DEF Follows
<1>3. ~ Solid(e) /\ Segment(e) \in QE /\ writer[Segment(e)] = w
    BY <1>1, <1>2 DEF Over
<1>4. WaitsFor(w, h, Segment(e), Solid(f))
    BY <1>1, <1>2, <1>3
<1>5. want[w][Segment(e)] # "none"
    BY <1>3, <1>4, GddAssumption DEF WaitsFor, QE
<1> QED
    BY <1>3, <1>5 DEF BaseInv, TypeOK

\* What a step does to transaction c: it ends or stays, and keeps its rows while it runs.
LEMMA StepKeeps ==
    ASSUME BaseInv, XactStep, NEW c \in Backend
    PROVE  /\ gxid'[c] \in {gxid[c], 0, nextGxid}
           /\ status[c] = "active" => gxid'[c] = gxid[c]
           /\ gxid[c] # 0 /\ status'[c] = "active" => status[c] = "active"
           /\ \A q \in QE : status[c] = "active" /\ writer[q] = c => writer'[q] = c
<1>t. TypeOK /\ XactInv
    BY DEF BaseInv
<1>0. NoBackend \notin Backend
    BY GddAssumption
<1> DEFINE Kept == /\ gxid'[c] \in {gxid[c], 0, nextGxid}
                   /\ status[c] = "active" => gxid'[c] = gxid[c]
                   /\ gxid[c] # 0 /\ status'[c] = "active" => status[c] = "active"
                   /\ \A q \in QE : status[c] = "active" /\ writer[q] = c => writer'[q] = c
<1>1. ASSUME NEW b \in Backend, Begin(b) PROVE Kept
    BY <1>t, <1>1 DEF Begin, TypeOK, XactInv, lockVars
<1>2. ASSUME NEW b \in Backend, Commit(b) PROVE Kept
    BY <1>t, <1>2 DEF Commit, TypeOK, lockVars
<1>3. ASSUME NEW b \in Backend, EndGxact(b) PROVE Kept
    BY <1>t, <1>3 DEF EndGxact, TypeOK, lockVars
<1>4. ASSUME NEW b \in Backend, ReleaseRelation(b) PROVE Kept
    BY <1>t, <1>4 DEF ReleaseRelation, TypeOK
<1>5. ASSUME NEW b \in Backend, NEW m \in RelModes, LockRelation(b, m) PROVE Kept
  <2>1. UNCHANGED <<gxid, writer>> /\ (UNCHANGED status \/ status' = [status EXCEPT ![b] = "ending"])
      BY <1>5 DEF LockRelation
  <2> QED
      BY <1>t, <2>1 DEF TypeOK
<1>6. ASSUME NEW b \in Backend, NEW p \in QE, Update(b, p) PROVE Kept
  <2>1. UNCHANGED <<gxid, status>> /\ \A q \in QE : writer'[q] = writer[q] \/ writer[q] = NoBackend
      BY <1>t, <1>6 DEF Update, TypeOK, xactVars
  <2> QED
      BY <1>0, <2>1
<1>7. ASSUME NEW b \in Backend, NEW p \in QE, GetTupleLock(b, p) PROVE Kept
    BY <1>7 DEF GetTupleLock, xactVars
<1>8. ASSUME NEW b \in Backend, NEW p \in QE, GetRow(b, p) PROVE Kept
  <2>1. UNCHANGED <<gxid, status>> /\ \A q \in QE : writer'[q] = writer[q] \/ writer[q] = NoBackend
      BY <1>t, <1>8 DEF GetRow, TypeOK, xactVars
  <2> QED
      BY <1>0, <2>1
<1>9. ASSUME NEW b \in Backend, NEW p \in QE, EndOnSegment(b, p) PROVE Kept
  <2>1. /\ UNCHANGED <<gxid, status>> /\ status[b] = "ending"
        /\ \A q \in QE : writer'[q] = writer[q] \/ writer[q] = b
      BY <1>t, <1>9 DEF EndOnSegment, TypeOK
  <2> QED
      BY <2>1
<1>10. ASSUME NEW i \in DOMAIN relQueue, GrantRelation(i) PROVE Kept
    BY <1>10 DEF GrantRelation, xactVars
<1> QED
    BY <1>1, <1>2, <1>3, <1>4, <1>5, <1>6, <1>7, <1>8, <1>9, <1>10 DEF XactStep

\* A wait that is over stays over: ids are not used again.
LEMMA OverStays ==
    ASSUME BaseInv, XactStep, NEW e, Over(e), To(e) \in Nat, To(e) < nextGxid, To(e) # 0
    PROVE  Over(e)'
<1>t. TypeOK /\ XactInv /\ LockInv
    BY DEF BaseInv
<1> SUFFICES ASSUME NEW c \in Backend, gxid'[c] = To(e)
             PROVE  \/ status'[c] # "active"
                    \/ ~ Solid(e) /\ Segment(e) \in QE /\ writer'[Segment(e)] = c
    BY DEF Over
<1>1. gxid[c] = To(e)
  <2>1. nextGxid \in Nat /\ To(e) # nextGxid
      BY <1>t, GxidNat
  <2> QED
      BY <2>1, StepKeeps
<1>2. gxid[c] # 0
    BY <1>1
<1>3. /\ status'[c] = "active" => status[c] = "active"
      /\ \A q \in QE : status[c] = "active" /\ writer[q] = c => writer'[q] = c
    BY <1>2, StepKeeps
<1>4. status[c] # "active" \/ (~ Solid(e) /\ Segment(e) \in QE /\ writer[Segment(e)] = c)
    BY <1>1 DEF Over
<1> QED
    BY <1>3, <1>4

\* A wait ends only by its holder, who waits for nothing that it would have to
\* wait for if the wait were part of a deadlock.
LEMMA WaitEnds ==
    ASSUME BaseInv, XactStep, NEW e \in Lasting, e \notin Lasting'
    PROVE  Over(e)' /\ \A f \in Lasting : ~ Follows(e, f)
<1>t. TypeOK /\ XactInv /\ LockInv
    BY DEF BaseInv
<1>0. NoBackend \notin Backend /\ RelModes \subseteq {"share", "excl"} /\ Coord \notin QE
    BY GddAssumption DEF QE
<1> DEFINE s == Segment(e)
           d == Solid(e)
<1>1. e \in Edge
    BY WhoWaits
<1>2. PICK w, h \in Backend : /\ gxid[w] = From(e) /\ gxid[h] = To(e) /\ gxid[w] # 0 /\ gxid[h] # 0
                              /\ status[w] = "active" /\ WaitsFor(w, h, s, d)
    BY WhoWaits
<1> HIDE DEF s, d
<1>3. ASSUME gxid'[w] = gxid[w], gxid'[h] = gxid[h], status'[w] = "active", WaitsFor(w, h, s, d)'
      PROVE  FALSE
    BY <1>1, <1>2, <1>3 DEF Lasting, s, d
<1>4. ASSUME status[h] # "active" PROVE Over(e)
    BY <1>2, <1>4, <1>t DEF Over, XactInv
<1>5. ASSUME status[h] # "active" PROVE \A f \in Lasting : ~ Follows(e, f)
    BY <1>4, <1>5, OverFree
<1>6. ASSUME gxid' = gxid, status'[h] # "active" \/ (~ d /\ s \in QE /\ writer'[s] = h) PROVE Over(e)'
    BY <1>2, <1>6, <1>t DEF Over, XactInv, s, d
<1> DEFINE Ends == Over(e)' /\ \A f \in Lasting : ~ Follows(e, f)
<1>7. ASSUME NEW b \in Backend, Begin(b) PROVE Ends
  <2>1. b # w /\ b # h
      BY <1>2, <1>7, <1>t DEF Begin, XactInv
  <2>2. gxid'[w] = gxid[w] /\ gxid'[h] = gxid[h] /\ status'[w] = "active"
      BY <1>2, <1>7, <1>t, <2>1 DEF Begin, TypeOK
  <2>3. WaitsFor(w, h, s, d)'
      BY <1>2, <1>7 DEF Begin, WaitsFor, Waiter, Mode, lockVars
  <2> QED
      BY <1>3, <2>2, <2>3
<1>8. ASSUME NEW b \in Backend, Commit(b) PROVE Ends
  <2>1. b # w
      BY <1>2, <1>8 DEF Commit, Waiting, Queued, WaitsFor
  <2>2. gxid' = gxid /\ status'[w] = "active"
      BY <1>2, <1>8, <1>t, <2>1 DEF Commit, TypeOK
  <2>3. WaitsFor(w, h, s, d)'
      BY <1>2, <1>8 DEF Commit, WaitsFor, Waiter, Mode, lockVars
  <2> QED
      BY <1>3, <2>2, <2>3
<1>9. ASSUME NEW b \in Backend, EndGxact(b) PROVE Ends
  <2>1. b # w /\ status[b] = "ending"
      BY <1>2, <1>9 DEF EndGxact
  <2>2. WaitsFor(w, h, s, d)' /\ gxid'[w] = gxid[w] /\ status'[w] = "active"
      BY <1>2, <1>9, <1>t, <2>1 DEF EndGxact, TypeOK, WaitsFor, Waiter, Mode, lockVars
  <2>3. b = h
      BY <1>2, <1>3, <1>9, <1>t, <2>2 DEF EndGxact, TypeOK
  <2>4. \A c \in Backend : gxid'[c] # To(e)
      BY <1>2, <1>9, <1>t, <2>3 DEF EndGxact, TypeOK, XactInv
  <2>5. Over(e)'
      BY <2>4 DEF Over
  <2> QED
      BY <1>5, <2>1, <2>3, <2>5
<1>10. ASSUME NEW b \in Backend, ReleaseRelation(b) PROVE Ends
  <2>1. b # w /\ b # h /\ gxid' = gxid
      BY <1>2, <1>10, <1>t DEF ReleaseRelation, XactInv
  <2>2. status'[w] = "active" /\ rel'[w] = rel[w] /\ rel'[h] = rel[h]
      BY <1>2, <1>10, <1>t, <2>1 DEF ReleaseRelation, TypeOK
  <2>3. WaitsFor(w, h, s, d)'
      BY <1>2, <1>10, <2>2 DEF ReleaseRelation, WaitsFor, Waiter, Mode
  <2> QED
      BY <1>3, <2>1, <2>2, <2>3
<1>11. ASSUME NEW b \in Backend, NEW m \in RelModes, LockRelation(b, m) PROVE Ends
  <2>1. b # w /\ UNCHANGED <<gxid, writer, tuplock, want>>
      BY <1>2, <1>11 DEF LockRelation, Waiting, Queued, WaitsFor
  <2>2. \/ rel' = [rel EXCEPT ![b] = m] /\ UNCHANGED <<relQueue, status>>
        \/ /\ relQueue' = Append(relQueue, <<b, m>>) \/ relQueue' = <<<<b, m>>>> \o relQueue
           /\ UNCHANGED <<rel, status>>
        \/ status' = [status EXCEPT ![b] = "ending"] /\ UNCHANGED <<rel, relQueue>>
      BY <1>11 DEF LockRelation
  <2>3. status'[w] = "active" /\ rel'[w] = rel[w]
      BY <1>2, <1>t, <2>1, <2>2 DEF TypeOK
  <2>4. \A x \in {"share", "excl"} : Conflicts(rel[h], x) => Conflicts(rel'[h], x)
      BY <1>0, <1>t, <1>11, <2>2 DEF LockRelation, Conflicts, TypeOK
  <2>5. \A i \in DOMAIN relQueue : \E j \in DOMAIN relQueue' : relQueue'[j] = relQueue[i]
    <3>1. CASE relQueue' = Append(relQueue, <<b, m>>) \/ relQueue' = <<<<b, m>>>> \o relQueue
      <4> DEFINE x == <<b, m>>
                 r == relQueue'
      <4>1. x \in Entry /\ \A k \in DOMAIN relQueue : relQueue[k][1] # x[1]
          BY <1>0, <1>11 DEF Entry, LockRelation, Waiting, Queued, Waiter
      <4>2. r = Append(relQueue, x) \/ r = <<x>> \o relQueue
          BY <3>1
      <4>3. relQueue \in Seq(Entry) /\ OnceEach(relQueue)
          BY <1>t DEF TypeOK, LockInv, Entry, OnceEach, Waiter
      <4> HIDE DEF x, r
      <4>4. QueuePlus(relQueue, x, r)
          BY <4>1, <4>2, <4>3, Entered
      <4> QED
          BY <4>4 DEF QueuePlus, r
    <3> QED
        BY <2>2, <3>1
  <2>6. \A i \in DOMAIN relQueue : Mode(i) \in {"share", "excl"}
    <3>1. \A i \in DOMAIN relQueue : relQueue[i] \in Entry
      <4>1. relQueue \in Seq(Entry)
          BY <1>t DEF TypeOK, Entry
      <4> QED
          BY <4>1
    <3> QED
        BY <3>1 DEF Entry, Mode
  <2>7. WaitsFor(w, h, s, d)'
    <3>1. CASE s = Coord
      <4>1. /\ d /\ w # h /\ rel[w] = "none"
            /\ \E i \in DOMAIN relQueue : Waiter(i) = w /\ Conflicts(rel[h], Mode(i))
          BY <1>0, <1>2, <3>1 DEF WaitsFor
      <4>2. PICK i \in DOMAIN relQueue : Waiter(i) = w /\ Conflicts(rel[h], Mode(i))
          BY <4>1
      <4>3. PICK j \in DOMAIN relQueue' : relQueue'[j] = relQueue[i]
          BY <2>5
      <4>4. Waiter(j)' = w /\ Conflicts(rel[h], Mode(j))'
          BY <2>4, <2>6, <4>2, <4>3 DEF Waiter, Mode, Conflicts
      <4> QED
          BY <2>3, <3>1, <4>1, <4>4 DEF WaitsFor
    <3>2. CASE s # Coord
        BY <1>2, <2>1, <3>2 DEF WaitsFor
    <3> QED
        BY <3>1, <3>2
  <2> QED
      BY <1>3, <2>1, <2>3, <2>7
<1>12. ASSUME NEW b \in Backend, NEW q \in QE, Update(b, q) PROVE Ends
  <2>1. \A p \in QE : /\ want[w][p] # "none" => want'[w][p] = want[w][p]
                      /\ writer[p] = h => writer'[p] = h
                      /\ tuplock[p] = h => tuplock'[p] = h
    <3>1. \/ writer[q] = NoBackend /\ writer' = [writer EXCEPT ![q] = b] /\ UNCHANGED <<tuplock, want>>
          \/ /\ tuplock[q] = NoBackend /\ tuplock' = [tuplock EXCEPT ![q] = b]
             /\ want' = [want EXCEPT ![b][q] = "xid"] /\ UNCHANGED writer
          \/ want' = [want EXCEPT ![b][q] = "tuple"] /\ UNCHANGED <<writer, tuplock>>
        BY <1>12 DEF Update
    <3>2. want[b][q] = "none"
        BY <1>12 DEF Update
    <3>3. \A p \in QE : want[w][p] # "none" => want'[w][p] = want[w][p]
        BY <1>t, <3>1, <3>2 DEF TypeOK
    <3>4. \A p \in QE : (writer[p] = h => writer'[p] = h) /\ (tuplock[p] = h => tuplock'[p] = h)
        BY <1>0, <1>t, <3>1 DEF TypeOK
    <3> QED
        BY <3>3, <3>4
  <2>2. WaitsFor(w, h, s, d)'
      BY <1>2, <1>12, <2>1 DEF Update, WaitsFor, Waiter, Mode
  <2> QED
      BY <1>2, <1>3, <1>12, <2>2 DEF Update, xactVars
<1>13. ASSUME NEW b \in Backend, NEW q \in QE, GetTupleLock(b, q) PROVE Ends
  <2>1. \A p \in QE : /\ tuplock[p] = h => tuplock'[p] = h
                      /\ want[w][p] = "xid" => want'[w][p] = "xid"
                      /\ want[w][p] = "tuple" /\ tuplock[p] = h => want'[w][p] = "tuple"
      BY <1>0, <1>13, <1>t DEF GetTupleLock, TypeOK
  <2>2. WaitsFor(w, h, s, d)'
      BY <1>2, <1>13, <2>1 DEF GetTupleLock, WaitsFor, Waiter, Mode
  <2> QED
      BY <1>2, <1>3, <1>13, <2>2 DEF GetTupleLock, xactVars
<1>14. ASSUME NEW b \in Backend, NEW q \in QE, GetRow(b, q) PROVE Ends
  <2>1. UNCHANGED <<gxid, status, rel, relQueue>>
      BY <1>14 DEF GetRow, xactVars
  <2>2. CASE s = q /\ h = b /\ ~ d
    <3>1. Over(e)'
        BY <1>6, <1>14, <1>t, <2>1, <2>2 DEF GetRow, TypeOK
    <3>2. ASSUME NEW f \in Lasting, Follows(e, f) PROVE FALSE
      <4>1. Segment(f) = q /\ From(f) = gxid[b]
          BY <1>2, <2>2, <3>2 DEF Follows, s, d
      <4>2. PICK x, y \in Backend : gxid[x] = From(f) /\ gxid[x] # 0 /\ WaitsFor(x, y, Segment(f), Solid(f))
          BY <3>2, WhoWaits
      <4>3. x = b
          BY <1>t, <4>1, <4>2 DEF XactInv
      <4>4. WaitsFor(b, y, q, Solid(f))
          BY <4>1, <4>2, <4>3
      <4>5. want[b][q] = "xid" /\ writer[q] = NoBackend
          BY <1>14 DEF GetRow
      <4> QED
          BY <1>0, <4>4, <4>5 DEF WaitsFor
    <3> QED
        BY <3>1, <3>2
  <2>3. CASE ~ (s = q /\ h = b /\ ~ d)
    <3>1. \A p \in QE : /\ writer[p] = h => writer'[p] = h
                        /\ tuplock[p] = h /\ ~ (p = q /\ h = b) => tuplock'[p] = h
                        /\ want[w][p] # "none" /\ writer[p] = h => want'[w][p] = want[w][p]
                        /\ want[w][p] = "tuple" => want'[w][p] = "tuple"
        BY <1>0, <1>14, <1>t DEF GetRow, TypeOK
    <3>2. WaitsFor(w, h, s, d)'
        BY <1>2, <2>1, <2>3, <3>1 DEF WaitsFor, Waiter, Mode
    <3> QED
        BY <1>2, <1>3, <2>1, <3>2
  <2> QED
      BY <2>2, <2>3
<1>15. ASSUME NEW b \in Backend, NEW q \in QE, EndOnSegment(b, q) PROVE Ends
  <2>1. UNCHANGED <<gxid, status, rel, relQueue>> /\ status[b] = "ending"
      BY <1>15 DEF EndOnSegment
  <2>2. CASE h = b
    <3>1. Over(e)'
        BY <1>6, <2>1, <2>2
    <3> QED
        BY <1>5, <2>1, <2>2, <3>1
  <2>3. CASE h # b
    <3>1. w # b
        BY <1>2, <2>1
    <3>2. \A p \in QE : /\ writer[p] = h => writer'[p] = h
                        /\ tuplock[p] = h => tuplock'[p] = h
                        /\ want'[w][p] = want[w][p]
        BY <1>15, <1>t, <2>3, <3>1 DEF EndOnSegment, TypeOK
    <3>3. WaitsFor(w, h, s, d)'
        BY <1>2, <2>1, <3>2 DEF WaitsFor, Waiter, Mode
    <3> QED
        BY <1>2, <1>3, <2>1, <3>3
  <2> QED
      BY <2>2, <2>3
<1>16. ASSUME NEW i \in DOMAIN relQueue, GrantRelation(i) PROVE Ends
  <2>1. /\ UNCHANGED <<gxid, status, writer, tuplock, want>>
        /\ rel' = [rel EXCEPT ![Waiter(i)] = Mode(i)]
        /\ relQueue' = RemoveAt(relQueue, i)
        /\ \A c \in Backend \ {Waiter(i)} : ~ Conflicts(rel[c], Mode(i))
      BY <1>16 DEF GrantRelation, Grantable, xactVars
  <2>2. WaitsFor(w, h, s, d)'
    <3>1. CASE s = Coord
      <4>1. /\ d /\ w # h /\ rel[w] = "none"
            /\ \E k \in DOMAIN relQueue : Waiter(k) = w /\ Conflicts(rel[h], Mode(k))
          BY <1>0, <1>2, <3>1 DEF WaitsFor
      <4>2. PICK k \in DOMAIN relQueue : Waiter(k) = w /\ Conflicts(rel[h], Mode(k))
          BY <4>1
      <4>3. k # i
          BY <2>1, <4>1, <4>2
      <4>4. Waiter(i) # w
          BY <1>t, <4>2, <4>3 DEF LockInv
      <4>5. relQueue \in Seq(Entry)
          BY <1>t DEF TypeOK, Entry
      <4>6. \E j \in DOMAIN relQueue' : relQueue'[j] = relQueue[k]
          BY <2>1, <4>3, <4>5, Removed
      <4>7. PICK j \in DOMAIN relQueue' : relQueue'[j] = relQueue[k]
          BY <4>6
      <4>8. rel'[w] = "none" /\ (rel'[h] = rel[h] \/ (h = Waiter(i) /\ rel'[h] = Mode(i)))
        <5>1. rel \in [Backend -> {"none", "share", "excl"}]
            BY <1>t DEF TypeOK
        <5> QED
            BY <1>2, <2>1, <4>1, <4>4, <5>1
      <4>9. Mode(i) \in {"share", "excl"} /\ Mode(k) \in {"share", "excl"}
        <5>1. relQueue[i] \in Entry /\ relQueue[k] \in Entry
            BY <1>16, <4>5
        <5> QED
            BY <5>1 DEF Entry, Mode
      <4>10. Conflicts(rel'[h], Mode(k))
        <5>1. CASE h = Waiter(i) /\ rel'[h] = Mode(i) /\ rel'[h] # rel[h]
          <6>1. rel[h] # "excl"
              BY <1>t, <1>16, <5>1 DEF LockInv
          <6> QED
              BY <4>2, <4>9, <5>1, <6>1 DEF Conflicts
        <5> QED
            BY <4>2, <4>8, <5>1
      <4>11. Waiter(j)' = w /\ Conflicts(rel[h], Mode(j))'
          BY <4>2, <4>7, <4>10 DEF Waiter, Mode, Conflicts
      <4> QED
          BY <3>1, <4>1, <4>8, <4>11 DEF WaitsFor
    <3>2. CASE s # Coord
        BY <1>2, <2>1, <3>2 DEF WaitsFor
    <3> QED
        BY <3>1, <3>2
  <2> QED
      BY <1>2, <1>3, <2>1, <2>2
<1> QED
    BY <1>7, <1>8, <1>9, <1>10, <1>11, <1>12, <1>13, <1>14, <1>15, <1>16 DEF XactStep

\* A deadlock stays: no step of a transaction ends one of its waits.
LEMMA DeadlockStays ==
    ASSUME BaseInv, XactStep, NEW E \in SUBSET Lasting, Persists(E)
    PROVE  E \subseteq Lasting'
<1> SUFFICES ASSUME NEW e \in E, e \notin Lasting' PROVE FALSE
    OBVIOUS
<1>1. PICK f \in E : Follows(e, f)
    BY PersistsFollows
<1>2. e \in Lasting /\ f \in Lasting
    OBVIOUS
<1> QED
    BY <1>1, <1>2, WaitEnds

\* The victim the detector turns to next is the youngest.
LEMMA NextVictimFact ==
    ASSUME GddInv, victims # {}
    PROVE  NextVictim \in victims /\ \A v \in victims : v <= NextVictim
<1>1. \A v \in victims : v \in Nat /\ v < nextGxid
  <2> SUFFICES ASSUME NEW v \in victims PROVE v \in Nat /\ v < nextGxid
      OBVIOUS
  <2>1. v \in Vid
      BY DEF GddInv, VictimInv
  <2>2. PICK E \in SUBSET Lasting : HasOut(E, v)
      BY DEF GddInv, VictimInv
  <2>3. PICK f \in E : From(f) = v
      BY <2>2 DEF HasOut
  <2>4. f \in Lasting
      BY <2>2, <2>3
  <2>5. From(f) < nextGxid
      BY <2>4, WhoWaits DEF GddInv, BaseInv
  <2> QED
      BY <2>1, <2>3, <2>5, GraphAssumption
<1>2. victims \in SUBSET Nat /\ nextGxid \in Nat
    BY <1>1, GxidNat DEF GddInv
<1> QED
    BY <1>1, <1>2, MaxFact DEF NextVictim

\* The backend of a victim waits.
LEMMA VictimWaits ==
    ASSUME GddInv, NEW v \in victims
    PROVE  \E b \in Backend : gxid[b] = v /\ status[b] = "active" /\ v # 0
<1>1. PICK E \in SUBSET Lasting : HasOut(E, v)
    BY DEF GddInv, VictimInv
<1>2. PICK f \in E : From(f) = v
    BY <1>1 DEF HasOut
<1>3. f \in Lasting
    BY <1>1, <1>2
<1> QED
    BY <1>2, <1>3, WhoWaits DEF GddInv, BaseInv

\* The steps of transactions keep the types and locks.
LEMMA BaseXact ==
    ASSUME BaseInv, XactStep
    PROVE  BaseInv'
BY BaseStatus, BaseRow, BaseRelation DEF XactStep

\* While the detector collects, no transaction that ends waits.
LEMMA QuietStep ==
    ASSUME BaseInv, XactStep, NEW c \in Backend, NEW p \in QE,
           status[c] = "ending" => want[c][p] = "none", status'[c] = "ending"
    PROVE  want'[c][p] = "none"
<1>t. TypeOK /\ XactInv /\ LockInv
    BY DEF BaseInv
<1>1. ASSUME NEW b \in Backend, Begin(b) PROVE want'[c][p] = "none"
    BY <1>t, <1>1 DEF Begin, TypeOK, lockVars
<1>2. ASSUME NEW b \in Backend, Commit(b) PROVE want'[c][p] = "none"
    BY <1>t, <1>2 DEF Commit, TypeOK, Waiting, lockVars
<1>3. ASSUME NEW b \in Backend, EndGxact(b) PROVE want'[c][p] = "none"
    BY <1>t, <1>3 DEF EndGxact, TypeOK, lockVars
<1>4. ASSUME NEW b \in Backend, ReleaseRelation(b) PROVE want'[c][p] = "none"
    BY <1>t, <1>4 DEF ReleaseRelation, TypeOK
<1>5. ASSUME NEW b \in Backend, NEW m \in RelModes, LockRelation(b, m) PROVE want'[c][p] = "none"
  <2>1. /\ want' = want /\ (UNCHANGED status \/ status' = [status EXCEPT ![b] = "ending"])
        /\ ~ Waiting(b)
      BY <1>5 DEF LockRelation
  <2> QED
      BY <1>t, <2>1 DEF TypeOK, Waiting
<1>6. ASSUME NEW b \in Backend, NEW q \in QE, Update(b, q) PROVE want'[c][p] = "none"
  <2>1. /\ status' = status /\ status[b] = "active"
        /\ want' = want \/ want' = [want EXCEPT ![b][q] = "xid"] \/ want' = [want EXCEPT ![b][q] = "tuple"]
      BY <1>6 DEF Update, xactVars
  <2>2. c # b
      BY <2>1
  <2> QED
      BY <1>t, <2>1, <2>2 DEF TypeOK
<1>7. ASSUME NEW b \in Backend, NEW q \in QE, GetTupleLock(b, q) PROVE want'[c][p] = "none"
    BY <1>t, <1>7 DEF GetTupleLock, TypeOK, xactVars
<1>8. ASSUME NEW b \in Backend, NEW q \in QE, GetRow(b, q) PROVE want'[c][p] = "none"
    BY <1>t, <1>8 DEF GetRow, TypeOK, xactVars
<1>9. ASSUME NEW b \in Backend, NEW q \in QE, EndOnSegment(b, q) PROVE want'[c][p] = "none"
    BY <1>t, <1>9 DEF EndOnSegment, TypeOK
<1>10. ASSUME NEW i \in DOMAIN relQueue, GrantRelation(i) PROVE want'[c][p] = "none"
    BY <1>t, <1>10 DEF GrantRelation, xactVars
<1> QED
    BY <1>1, <1>2, <1>3, <1>4, <1>5, <1>6, <1>7, <1>8, <1>9, <1>10 DEF XactStep

\* The steps of transactions leave the detector's own state alone.
LEMMA DetectorWaits ==
    ASSUME XactStep
    PROVE  UNCHANGED <<pc, rows, pending, graph, victims, pid>>
BY DEF XactStep, Begin, Commit, EndGxact, ReleaseRelation, LockRelation, Update, GetTupleLock,
       GetRow, EndOnSegment, GrantRelation, gddVars

\* The steps of transactions keep the invariant.
LEMMA XactKeeps ==
    ASSUME GddInv, XactStep
    PROVE  GddInv'
<1>b. BaseInv
    BY DEF GddInv, BaseInv
<1>1. BaseInv'
    BY <1>b, BaseXact
<1>u. UNCHANGED <<pc, rows, pending, graph, victims, pid>>
    BY DetectorWaits
<1>2. RoundInv'
  <2>1. ASSUME pc = "collect", NEW b \in Backend, NEW q \in QE, status'[b] = "ending"
        PROVE  want'[b][q] = "none"
      BY <1>b, <2>1, QuietStep DEF GddInv, RoundInv
  <2>2. ASSUME pc = "signal" PROVE pid \in Backend /\ gxid'[pid] = NextVictim
    <3>1. pid \in Backend /\ gxid[pid] = NextVictim /\ victims # {}
        BY <2>2 DEF GddInv, RoundInv
    <3>2. NextVictim \in victims
        BY <3>1, NextVictimFact
    <3>3. PICK b \in Backend : gxid[b] = NextVictim /\ status[b] = "active" /\ NextVictim # 0
        BY <3>2, VictimWaits
    <3>4. b = pid
        BY <3>1, <3>3 DEF GddInv, XactInv
    <3> QED
        BY <1>b, <3>1, <3>3, <3>4, StepKeeps
  <2> QED
      BY <1>u, <2>1, <2>2 DEF GddInv, RoundInv, NextVictim
<1>3. RowsInv'
  <2>1. Collected' = Collected
      BY <1>u DEF Collected
  <2>2. nextGxid' \in Nat /\ nextGxid \in Nat /\ nextGxid <= nextGxid'
    <3>1. nextGxid' = nextGxid \/ nextGxid' = nextGxid + 1
        BY DEF XactStep, Begin, Commit, EndGxact, ReleaseRelation, LockRelation, Update, GetTupleLock,
               GetRow, EndOnSegment, GrantRelation, xactVars
    <3> QED
        BY <1>b, <3>1, GxidNat DEF BaseInv
  <2>3. \A e \in Collected : From(e) \in Vid /\ To(e) \in Vid /\ From(e) \in Nat /\ To(e) \in Nat
    <3>1. \A e \in Edge : From(e) \in Vid /\ To(e) \in Vid
        BY DEF Edge, From, To
    <3> QED
        BY <3>1, GraphAssumption DEF GddInv, RowsInv
  <2>4. \A e \in Collected : From(e) < nextGxid' /\ To(e) < nextGxid'
      BY <2>2, <2>3 DEF GddInv, RowsInv
  <2>5. ASSUME NEW e \in Stale' PROVE Over(e)' /\ \A f \in Collected : Follows(e, f) => f \in Stale
    <3>1. e \in Collected /\ e \notin Lasting'
        BY <2>1 DEF Stale
    <3>2. CASE e \in Lasting
        BY <1>b, <3>1, <3>2, WaitEnds DEF Stale
    <3>3. CASE e \notin Lasting
      <4>1. Over(e)
          BY <3>1, <3>3 DEF GddInv, RowsInv, Stale
      <4>2. To(e) \in Nat /\ To(e) < nextGxid /\ To(e) # 0
          BY <2>3, <3>1 DEF GddInv, RowsInv, Collected
      <4>3. Over(e)'
          BY <1>b, <4>1, <4>2, OverStays
      <4> QED
          BY <1>b, <4>1, <4>3, OverFree DEF Stale
    <3> QED
        BY <3>2, <3>3
  <2>6. ASSUME NEW S \in SUBSET Stale', Persists(S) PROVE S = {}
    <3> DEFINE old == S \cap Stale
    <3>1. S \subseteq Collected
        BY <2>1 DEF Stale
    <3>2. \A e \in S : \E f \in old : Follows(e, f)
        BY <2>5, <2>6, <3>1, PersistsFollows
    <3>3. Persists(old)
        BY <3>2, PersistsFollows
    <3>4. old = {}
        BY <3>3 DEF GddInv, RowsInv
    <3> QED
        BY <3>2, <3>4
  <2>7. (\A S \in SUBSET Stale : Persists(S) => S = {})'
      BY <2>6
  <2>8. (\A e \in Stale : Over(e))'
      BY <2>5
  <2> QED
      BY <1>u, <2>1, <2>4, <2>7, <2>8 DEF GddInv, RowsInv
<1>4. BreakInv'
  <2>1. graph \in SUBSET Lasting /\ Persists(graph)
      BY DEF GddInv, BreakInv
  <2>2. graph \subseteq Lasting'
      BY <1>b, <2>1, DeadlockStays
  <2> QED
      BY <1>u, <2>2 DEF GddInv, BreakInv
<1>5. VictimInv'
  <2> SUFFICES ASSUME NEW v \in victims
               PROVE  /\ v \in Vid
                      /\ \E E \in SUBSET Lasting' :
                            /\ Persists(E) /\ HasOut(E, v)
                            /\ \A u \in victims : v < u => ~ HasIn(E, u) /\ ~ HasOut(E, u)
      BY <1>u DEF VictimInv
  <2>1. PICK E \in SUBSET Lasting :
              /\ Persists(E) /\ HasOut(E, v)
              /\ \A u \in victims : v < u => ~ HasIn(E, u) /\ ~ HasOut(E, u)
      BY DEF GddInv, VictimInv
  <2>2. E \in SUBSET Lasting'
      BY <1>b, <2>1, DeadlockStays
  <2> QED
      BY <2>1, <2>2 DEF GddInv, VictimInv
<1> QED
    BY <1>1, <1>2, <1>3, <1>4, <1>5 DEF GddInv, BaseInv

-----------------------------------------------------------------------------
(* The detector                                                             *)

\* Reading and thinking change nothing of the transactions.
LEMMA SameWaits ==
    ASSUME BaseInv, UNCHANGED <<xactVars, lockVars>>
    PROVE  Lasting' = Lasting /\ XactInv' /\ LockInv'
<1>1. /\ UNCHANGED <<nextGxid, gxid, status, endedOn>>
      /\ UNCHANGED <<writer, tuplock, want, rel, relQueue>>
    BY DEF xactVars, lockVars
<1>2. XactInv'
    BY <1>1 DEF BaseInv, XactInv
<1>3. LockInv'
    BY <1>1 DEF BaseInv, LockInv, Waiter
<1>4. \A w, h \in Backend, s \in Seg, d \in BOOLEAN : WaitsFor(w, h, s, d)' <=> WaitsFor(w, h, s, d)
    BY <1>1 DEF WaitsFor, Waiter, Mode, Conflicts
<1>5. \A e \in Edge : Segment(e) \in Seg /\ Solid(e) \in BOOLEAN
    BY DEF Edge, Segment, Solid
<1>6. Lasting' = Lasting
    BY <1>1, <1>4, <1>5 DEF Lasting
<1> QED
    BY <1>2, <1>3, <1>6

\* What gp_dist_wait_status() reports are the ids themselves.
LEMMA RowXidFact ==
    ASSUME Undisturbed, TypeOK, NEW b \in Backend
    PROVE  RowXid(b) = gxid[b] /\ RowXid(b) \in Vid \cup {0}
<1>1. gxid[b] \in Vid \cup {0}
    BY DEF TypeOK
<1> QED
    BY <1>1 DEF Undisturbed, RowXid

\* What is read from a segment, or from the coordinator, is a wait that lasts.
LEMMA RowsLast ==
    ASSUME Undisturbed, GddInv, pc = "collect", NEW s \in Seg,
           NEW R, (s \in QE /\ R = SegmentRows(s)) \/ (s = Coord /\ R = CoordRows)
    PROVE  /\ R \subseteq Seg \X (Vid \cup {0}) \X (Vid \cup {0}) \X BOOLEAN
           /\ \A e \in R : From(e) # 0 /\ To(e) # 0 => e \in Lasting
<1>b. BaseInv /\ TypeOK /\ LockInv
    BY DEF GddInv, BaseInv
<1>0. NoBackend \notin Backend /\ Coord \notin QE
    BY GddAssumption DEF QE
<1>1. ASSUME NEW e \in R
      PROVE  \E w, h \in Backend, d \in BOOLEAN :
                e = <<s, gxid[w], gxid[h], d>> /\ status[w] = "active" /\ WaitsFor(w, h, s, d)
  <2>1. CASE s \in QE /\ R = SegmentRows(s)
    <3>1. \A b \in Backend : want[b][s] # "none" => status[b] = "active"
        BY <1>b, <2>1 DEF GddInv, RoundInv, LockInv
    <3>2. \A b \in Backend : want[b][s] # "none" => want[b][s] = "xid" \/ want[b][s] = "tuple"
        BY <1>b, <2>1 DEF TypeOK
    <3>3. (writer[s] # NoBackend => writer[s] \in Backend) /\ (tuplock[s] # NoBackend => tuplock[s] \in Backend)
        BY <1>b, <2>1 DEF TypeOK
    <3>4. CASE \E b \in Backend : /\ want[b][s] = "xid" /\ writer[s] # NoBackend
                                  /\ e = <<s, RowXid(b), RowXid(writer[s]), TRUE>>
      <4>1. PICK b \in Backend : /\ want[b][s] = "xid" /\ writer[s] # NoBackend
                                 /\ e = <<s, RowXid(b), RowXid(writer[s]), TRUE>>
          BY <3>4
      <4>2. RowXid(b) = gxid[b] /\ RowXid(writer[s]) = gxid[writer[s]]
          BY <1>b, <3>3, <4>1, RowXidFact
      <4>3. WaitsFor(b, writer[s], s, TRUE) /\ status[b] = "active"
          BY <2>1, <3>1, <4>1 DEF WaitsFor
      <4> QED
          BY <3>3, <4>1, <4>2, <4>3
    <3>5. CASE \E b \in Backend : /\ want[b][s] = "tuple" /\ tuplock[s] # NoBackend
                                  /\ e = <<s, RowXid(b), RowXid(tuplock[s]), FALSE>>
      <4>1. PICK b \in Backend : /\ want[b][s] = "tuple" /\ tuplock[s] # NoBackend
                                 /\ e = <<s, RowXid(b), RowXid(tuplock[s]), FALSE>>
          BY <3>5
      <4>2. RowXid(b) = gxid[b] /\ RowXid(tuplock[s]) = gxid[tuplock[s]]
          BY <1>b, <3>3, <4>1, RowXidFact
      <4>3. WaitsFor(b, tuplock[s], s, FALSE) /\ status[b] = "active"
          BY <2>1, <3>1, <4>1 DEF WaitsFor
      <4> QED
          BY <3>3, <4>1, <4>2, <4>3
    <3> QED
        BY <2>1, <3>4, <3>5 DEF SegmentRows
  <2>2. CASE s = Coord /\ R = CoordRows
    <3>1. PICK x \in Backend \X Backend :
                /\ e = <<Coord, RowXid(x[1]), RowXid(x[2]), TRUE>>
                /\ x[1] # x[2] /\ rel[x[1]] = "none"
                /\ \E i \in DOMAIN relQueue : Waiter(i) = x[1] /\ Conflicts(rel[x[2]], Mode(i))
        BY <2>2 DEF CoordRows
    <3>2. x[1] \in Backend /\ x[2] \in Backend
        OBVIOUS
    <3>3. RowXid(x[1]) = gxid[x[1]] /\ RowXid(x[2]) = gxid[x[2]]
        BY <1>b, <3>2, RowXidFact
    <3>4. status[x[1]] = "active"
        BY <1>b, <3>1 DEF LockInv
    <3>5. WaitsFor(x[1], x[2], s, TRUE)
        BY <2>2, <3>1 DEF WaitsFor
    <3> QED
        BY <2>2, <3>1, <3>2, <3>3, <3>4, <3>5
  <2> QED
      BY <2>1, <2>2
<1>2. ASSUME NEW e \in R
      PROVE  /\ e \in Seg \X (Vid \cup {0}) \X (Vid \cup {0}) \X BOOLEAN
             /\ From(e) # 0 /\ To(e) # 0 => e \in Lasting
  <2>1. PICK w, h \in Backend, d \in BOOLEAN :
                e = <<s, gxid[w], gxid[h], d>> /\ status[w] = "active" /\ WaitsFor(w, h, s, d)
      BY <1>1
  <2>2. gxid[w] \in Vid \cup {0} /\ gxid[h] \in Vid \cup {0}
      BY <1>b DEF TypeOK
  <2>3. From(e) = gxid[w] /\ To(e) = gxid[h]
      BY <2>1 DEF From, To
  <2> QED
      BY <1>b, <2>1, <2>2, <2>3, WaitsLast
<1> QED
    BY <1>2

\* Collecting the rows of one node keeps the invariant.
LEMMA CollectKeeps ==
    ASSUME Undisturbed, GddInv, NEW s \in Seg, s \in pending, pc = "collect",
           NEW R, (s \in QE /\ R = SegmentRows(s)) \/ (s = Coord /\ R = CoordRows),
           rows' = [rows EXCEPT ![s] = R], pending' = pending \ {s}, pc' \in {"collect", "build"},
           UNCHANGED <<xactVars, lockVars, graph, victims, pid>>
    PROVE  GddInv'
<1>b. BaseInv
    BY DEF GddInv, BaseInv
<1>w. Lasting' = Lasting /\ XactInv' /\ LockInv'
    BY <1>b, SameWaits
<1>x. UNCHANGED <<nextGxid, gxid, status, endedOn>> /\ UNCHANGED <<writer, tuplock, want, rel, relQueue>>
    BY DEF xactVars, lockVars
<1>r. /\ R \subseteq Seg \X (Vid \cup {0}) \X (Vid \cup {0}) \X BOOLEAN
      /\ \A e \in R : From(e) # 0 /\ To(e) # 0 => e \in Lasting
    BY RowsLast
<1>t. rows \in [Seg -> SUBSET (Seg \X (Vid \cup {0}) \X (Vid \cup {0}) \X BOOLEAN)]
    BY DEF GddInv, RowsInv
<1>1. TypeOK'
    BY <1>x DEF GddInv, TypeOK
<1>2. RoundInv'
  <2>1. \A p \in pending' : rows'[p] = {}
    <3>1. pending \subseteq Seg /\ \A p \in pending : rows[p] = {}
        BY DEF GddInv, TypeOK, RoundInv
    <3> QED
        BY <1>t, <3>1
  <2> QED
      BY <1>x, <2>1 DEF GddInv, RoundInv
<1>3. RowsInv'
  <2>1. rows' \in [Seg -> SUBSET (Seg \X (Vid \cup {0}) \X (Vid \cup {0}) \X BOOLEAN)]
      BY <1>r, <1>t
  <2>2. \A p \in Seg : rows'[p] = IF p = s THEN R ELSE rows[p]
      BY <1>t
  <2>3. \A e \in Collected' : e \in Collected \/ e \in Lasting
      BY <1>r, <2>2 DEF Collected
  <2>4. Stale' \subseteq Stale
      BY <1>w, <2>3 DEF Stale
  <2>5. \A e \in Lasting : e \in Edge /\ From(e) < nextGxid /\ To(e) < nextGxid
      BY <1>b, WhoWaits
  <2>6. \A e : Over(e)' <=> Over(e)
      BY <1>x DEF Over
  <2>7. \A e \in Collected' : e \in Edge /\ From(e) < nextGxid /\ To(e) < nextGxid
      BY <2>3, <2>5 DEF GddInv, RowsInv
  <2>8. \A e \in Stale' : Over(e)
      BY <2>4 DEF GddInv, RowsInv
  <2>9. \A S \in SUBSET Stale' : Persists(S) => S = {}
      BY <2>4 DEF GddInv, RowsInv
  <2> QED
      BY <1>x, <2>1, <2>6, <2>7, <2>8, <2>9 DEF RowsInv
<1>4. BreakInv' /\ VictimInv'
    BY <1>w DEF GddInv, BreakInv, VictimInv
<1> QED
    BY <1>w, <1>1, <1>2, <1>3, <1>4 DEF GddInv

\* Of the waits it has read, those between live transactions that make a
\* deadlock all last.
LEMMA GraphLasts ==
    ASSUME GddInv, NEW g, g \subseteq Collected
    PROVE  Core(g) \subseteq Lasting
<1>b. BaseInv
    BY DEF GddInv, BaseInv
<1>1. Core(g) \subseteq g /\ Persists(Core(g))
    BY CorePersists
<1> DEFINE S == Core(g) \cap Stale
<1>2. ASSUME NEW e \in S PROVE \E f \in S : Follows(e, f)
  <2>1. PICK f \in Core(g) : Follows(e, f)
      BY <1>1, PersistsFollows
  <2>2. Over(e)
      BY DEF GddInv, RowsInv
  <2>3. f \notin Lasting
      BY <1>b, <2>1, <2>2, OverFree
  <2> QED
      BY <1>1, <2>1, <2>3 DEF Stale
<1> HIDE DEF S
<1>3. Persists(S)
    BY <1>2, PersistsFollows
<1>4. S = {}
    BY <1>3 DEF GddInv, RowsInv, S
<1> QED
    BY <1>1, <1>4 DEF S, Stale

\* Starting a round and building the graph keep the invariant.
LEMMA BuildKeeps ==
    ASSUME Undisturbed, GddInv, StartRound \/ buildWaitGraph
    PROVE  GddInv'
<1>b. BaseInv
    BY DEF GddInv, BaseInv
<1>u. UNCHANGED <<xactVars, lockVars, victims, pid>>
    BY DEF StartRound, buildWaitGraph
<1>w. Lasting' = Lasting /\ XactInv' /\ LockInv'
    BY <1>b, <1>u, SameWaits
<1>x. UNCHANGED <<nextGxid, gxid, status, endedOn>> /\ UNCHANGED <<writer, tuplock, want, rel, relQueue>>
    BY <1>u DEF xactVars, lockVars
<1>1. rows' = [s \in Seg |-> {}]
    BY DEF StartRound, buildWaitGraph, GddInv, RoundInv
<1>2. RowsInv'
  <2>1. Collected' = {}
      BY <1>1 DEF Collected
  <2>2. Stale' = {}
      BY <2>1 DEF Stale
  <2> QED
      BY <1>1, <2>1, <2>2 DEF RowsInv
<1>3. VictimInv'
    BY <1>u, <1>w DEF GddInv, VictimInv
<1>4. CASE StartRound
  <2>1. TypeOK'
      BY <1>x, <1>u, <1>4 DEF GddInv, TypeOK, StartRound
  <2>2. \A b \in Backend : status[b] # "ending"
      BY <1>4 DEF StartRound, Undisturbed
  <2>3. RoundInv'
    <3>1. pc = "sleep" /\ pc' = "collect" /\ pending' = Seg /\ UNCHANGED <<graph, victims>>
        BY <1>4 DEF StartRound
    <3> QED
        BY <1>1, <1>x, <2>2, <3>1 DEF GddInv, RoundInv
  <2>4. BreakInv'
      BY <1>u, <1>w, <1>4 DEF GddInv, BreakInv, StartRound
  <2> QED
      BY <1>w, <1>2, <1>3, <2>1, <2>3, <2>4 DEF GddInv
<1>5. CASE buildWaitGraph
  <2> DEFINE gxids == {gxid[b] : b \in Backend} \ {0}
             g == {e \in UNION {rows[s] : s \in Seg} : From(e) \in gxids /\ To(e) \in gxids}
  <2>1. pc = "build" /\ graph' = Core(g) /\ pc' = "break" /\ pending' = pending
      BY <1>5 DEF buildWaitGraph
  <2>2. g \subseteq Collected
      BY DEF Collected
  <2> HIDE DEF g
  <2>3. graph' \subseteq Lasting /\ Persists(graph')
      BY <2>1, <2>2, GraphLasts, CorePersists
  <2>4. victims = {}
      BY <2>1 DEF GddInv, RoundInv
  <2>5. graph' \subseteq Edge
      BY <2>3 DEF Lasting
  <2>6. TypeOK'
      BY <1>x, <1>u, <2>1, <2>5 DEF GddInv, TypeOK
  <2>7. RoundInv'
    <3>1. pending \subseteq Seg
        BY DEF GddInv, TypeOK
    <3> QED
        BY <1>1, <2>1, <3>1 DEF RoundInv
  <2>8. BreakInv'
      BY <1>u, <1>w, <2>3, <2>4 DEF BreakInv
  <2> QED
      BY <1>w, <1>2, <1>3, <2>6, <2>7, <2>8 DEF GddInv
<1> QED
    BY <1>4, <1>5

\* The next victim is the youngest transaction left in the graph.
LEMMA MaxVidFact ==
    ASSUME Undisturbed, GddInv, graph # {}
    PROVE  LET vid == gddCtxGetMaxVid(graph)
           IN  /\ vid \in Vid /\ vid \in Nat /\ HasOut(graph, vid)
               /\ \A e \in graph : From(e) <= vid /\ To(e) <= vid
<1> DEFINE m == CHOOSE v \in Linked(graph) : \A w \in Linked(graph) : w <= v
<1>1. \A e \in graph : /\ From(e) \in Vid /\ To(e) \in Vid /\ From(e) \in Nat /\ To(e) \in Nat
                       /\ From(e) < nextGxid /\ To(e) < nextGxid
  <2>1. \A e \in graph : e \in Lasting
      BY DEF GddInv, BreakInv
  <2> QED
      BY <2>1, WhoWaits, GraphAssumption DEF GddInv, BaseInv
<1>2. /\ Linked(graph) \in SUBSET Nat /\ Linked(graph) # {} /\ nextGxid \in Nat
      /\ \A v \in Linked(graph) : v < nextGxid /\ v \in Vid
    BY <1>1, GxidNat DEF Linked, GddInv
<1>3. m \in Linked(graph) /\ \A w \in Linked(graph) : w <= m
    BY <1>2, MaxFact
<1> HIDE DEF m
<1>4. gddCtxGetMaxVid(graph) = m
    BY <1>2, <1>3 DEF gddCtxGetMaxVid, Undisturbed, m
<1>5. HasOut(graph, m)
  <2>1. PICK e \in graph : From(e) = m \/ To(e) = m
      BY <1>3 DEF Linked
  <2>2. PICK f \in graph : From(f) = To(e)
      BY PersistsFollows DEF Follows, GddInv, BreakInv
  <2> QED
      BY <2>1, <2>2 DEF HasOut
<1>6. \A e \in graph : From(e) <= m /\ To(e) <= m
    BY <1>3 DEF Linked
<1> QED
    BY <1>2, <1>3, <1>4, <1>5, <1>6

\* Picking a victim keeps the invariant.
LEMMA BreakKeeps ==
    ASSUME Undisturbed, GddInv, BreakCycle
    PROVE  GddInv'
<1>b. BaseInv
    BY DEF GddInv, BaseInv
<1>u. UNCHANGED <<xactVars, lockVars, pc, rows, pending, pid>> /\ pc = "break" /\ graph # {}
    BY DEF BreakCycle
<1>w. Lasting' = Lasting /\ XactInv' /\ LockInv'
    BY <1>b, <1>u, SameWaits
<1>x. UNCHANGED <<nextGxid, gxid, status, endedOn>> /\ UNCHANGED <<writer, tuplock, want, rel, relQueue>>
    BY <1>u DEF xactVars, lockVars
<1> DEFINE vid == gddCtxGetMaxVid(graph)
           rest == gddCtxRemoveVid(graph, vid)
<1>1. victims' = victims \cup {vid} /\ graph' = Core(rest)
    BY DEF BreakCycle
<1>2. /\ vid \in Vid /\ vid \in Nat /\ HasOut(graph, vid)
      /\ \A e \in graph : From(e) <= vid /\ To(e) <= vid
    BY <1>u, MaxVidFact
<1>3. rest = {e \in graph : vid \notin {From(e), To(e)}}
    BY DEF gddCtxRemoveVid
<1> HIDE DEF vid, rest
<1>4. graph' \subseteq rest /\ Persists(graph')
    BY <1>1, CorePersists
<1>5. graph \subseteq Lasting /\ Persists(graph) /\ \A v \in victims, e \in graph : From(e) < v /\ To(e) < v
    BY DEF GddInv, BreakInv
<1>6. graph' \subseteq graph /\ \A e \in graph' : From(e) # vid /\ To(e) # vid
    BY <1>3, <1>4
<1>7. \A e \in graph : From(e) \in Nat /\ To(e) \in Nat
  <2>1. \A e \in Lasting : From(e) \in Vid /\ To(e) \in Vid
      BY <1>b, WhoWaits
  <2> QED
      BY <1>5, <2>1, GraphAssumption
<1>8. \A e \in graph' : From(e) < vid /\ To(e) < vid
  <2> SUFFICES ASSUME NEW e \in graph' PROVE From(e) < vid /\ To(e) < vid
      OBVIOUS
  <2>1. e \in graph /\ From(e) # vid /\ To(e) # vid
      BY <1>6
  <2>2. From(e) <= vid /\ To(e) <= vid /\ From(e) \in Nat /\ To(e) \in Nat
      BY <1>2, <1>7, <2>1
  <2> QED
      BY <1>2, <2>1, <2>2
<1>9. BreakInv'
    BY <1>w, <1>1, <1>4, <1>5, <1>6, <1>8 DEF BreakInv
<1>10. ASSUME NEW v \in victims PROVE vid < v /\ v \in Nat
  <2>1. v \in Vid
      BY DEF GddInv, VictimInv
  <2>2. PICK f \in graph : From(f) = vid
      BY <1>2 DEF HasOut
  <2> QED
      BY <1>5, <2>1, <2>2, GraphAssumption
<1>11. VictimInv'
  <2>1. ASSUME NEW v \in victims
        PROVE  \E E \in SUBSET Lasting :
                  /\ Persists(E) /\ HasOut(E, v)
                  /\ \A u \in victims' : v < u => ~ HasIn(E, u) /\ ~ HasOut(E, u)
    <3>1. PICK E \in SUBSET Lasting :
              /\ Persists(E) /\ HasOut(E, v)
              /\ \A u \in victims : v < u => ~ HasIn(E, u) /\ ~ HasOut(E, u)
        BY DEF GddInv, VictimInv
    <3>2. ~ (v < vid)
        BY <1>2, <1>10
    <3> QED
        BY <1>1, <3>1, <3>2
  <2>2. \E E \in SUBSET Lasting :
            /\ Persists(E) /\ HasOut(E, vid)
            /\ \A u \in victims' : vid < u => ~ HasIn(E, u) /\ ~ HasOut(E, u)
    <3>1. ASSUME NEW u \in victims', vid < u PROVE ~ HasIn(graph, u) /\ ~ HasOut(graph, u)
      <4>1. u \in victims
          BY <1>1, <1>2, <3>1
      <4>2. u \in Nat
          BY <1>10, <4>1
      <4>3. \A e \in graph : From(e) # u /\ To(e) # u
          BY <1>5, <1>7, <4>1, <4>2
      <4> QED
          BY <4>3 DEF HasIn, HasOut
    <3> QED
        BY <1>2, <1>5, <3>1
  <2>3. \A v \in victims : v \in Vid
      BY DEF GddInv, VictimInv
  <2> QED
      BY <1>w, <1>1, <1>2, <2>1, <2>2, <2>3 DEF VictimInv
<1>12. TypeOK'
  <2>1. graph' \subseteq Edge
      BY <1>5, <1>6 DEF Lasting
  <2>2. victims' \subseteq Int
      BY <1>1, <1>2 DEF GddInv, TypeOK
  <2> QED
      BY <1>x, <1>u, <2>1, <2>2 DEF GddInv, TypeOK
<1>13. RoundInv'
    BY <1>u DEF GddInv, RoundInv
<1>14. RowsInv'
  <2>1. Collected' = Collected /\ Stale' = Stale
      BY <1>u, <1>w DEF Collected, Stale
  <2>2. \A e : Over(e)' <=> Over(e)
      BY <1>x DEF Over
  <2> QED
      BY <1>u, <1>x, <2>1, <2>2 DEF GddInv, RowsInv
<1> QED
    BY <1>w, <1>9, <1>11, <1>12, <1>13, <1>14 DEF GddInv

\* The end of the search and the look-up of a backend keep the invariant.
LEMMA LookupKeeps ==
    ASSUME GddInv, EndBreak \/ GetPidByGxid
    PROVE  GddInv'
<1>b. BaseInv
    BY DEF GddInv, BaseInv
<1>u. UNCHANGED <<xactVars, lockVars, rows, pending, graph, victims>>
    BY DEF EndBreak, GetPidByGxid
<1>w. Lasting' = Lasting /\ XactInv' /\ LockInv'
    BY <1>b, <1>u, SameWaits
<1>x. UNCHANGED <<nextGxid, gxid, status, endedOn>> /\ UNCHANGED <<writer, tuplock, want, rel, relQueue>>
    BY <1>u DEF xactVars, lockVars
<1>1. BreakInv' /\ VictimInv'
    BY <1>u, <1>w DEF GddInv, BreakInv, VictimInv
<1>2. RowsInv'
  <2>1. Collected' = Collected /\ Stale' = Stale
      BY <1>u, <1>w DEF Collected, Stale
  <2>2. \A e : Over(e)' <=> Over(e)
      BY <1>x DEF Over
  <2> QED
      BY <1>u, <1>x, <2>1, <2>2 DEF GddInv, RowsInv
<1>3. CASE EndBreak
  <2>1. TypeOK'
      BY <1>x, <1>u, <1>3 DEF GddInv, TypeOK, EndBreak
  <2>2. RoundInv'
    <3>1. /\ pc = "break" /\ graph = {} /\ graph' = {} /\ victims' = victims /\ rows' = rows /\ pending' = pending
          /\ pc' = IF victims = {} THEN "sleep" ELSE "cancel"
        BY <1>3 DEF EndBreak
    <3> QED
        BY <3>1 DEF GddInv, RoundInv
  <2> QED
      BY <1>w, <1>1, <1>2, <2>1, <2>2 DEF GddInv
<1>4. CASE GetPidByGxid
  <2> DEFINE owner == {b \in Backend : gxid[b] = NextVictim}
  <2>1. pc = "cancel" /\ pc' = "signal" /\ pid' = IF owner = {} THEN NoBackend ELSE CHOOSE b \in owner : TRUE
      BY <1>4 DEF GetPidByGxid
  <2>2. victims # {}
      BY <2>1 DEF GddInv, RoundInv
  <2>3. owner # {}
      BY <2>2, NextVictimFact, VictimWaits
  <2>4. pid' \in Backend /\ gxid[pid'] = NextVictim
      BY <2>1, <2>3
  <2> HIDE DEF owner
  <2>5. TypeOK'
      BY <1>x, <1>u, <2>1, <2>4 DEF GddInv, TypeOK
  <2>6. RoundInv'
      BY <1>u, <1>x, <2>1, <2>2, <2>4 DEF GddInv, RoundInv, NextVictim
  <2> QED
      BY <1>w, <1>1, <1>2, <2>5, <2>6 DEF GddInv
<1> QED
    BY <1>3, <1>4

\* What the cancelled backend leaves: its place in the queue, and nothing else.
LEMMA CancelFacts ==
    ASSUME BaseInv, NEW b \in Backend, status[b] = "active", Cancelled(b)
    PROVE  /\ relQueue' \in Seq(Entry) /\ OnceEach(relQueue')
           /\ \A k \in DOMAIN relQueue : relQueue[k][1] # b => \E j \in DOMAIN relQueue' : relQueue'[j] = relQueue[k]
           /\ \A j \in DOMAIN relQueue' : \E k \in DOMAIN relQueue : relQueue[k][1] # b /\ relQueue'[j] = relQueue[k]
<1>1. relQueue \in Seq(Entry) /\ OnceEach(relQueue)
    BY DEF BaseInv, TypeOK, LockInv, Entry, OnceEach, Waiter
<1>2. CASE Queued(b)
  <2>1. PICK i \in DOMAIN relQueue : relQueue[i][1] = b /\ relQueue' = RemoveAt(relQueue, i)
      BY <1>2 DEF Cancelled, RemoveFromWaitQueue, Waiter
  <2>2. \A k \in DOMAIN relQueue : relQueue[k][1] # b <=> k # i
      BY <1>1, <2>1 DEF OnceEach
  <2> DEFINE r == RemoveAt(relQueue, i)
  <2>3. /\ r \in Seq(Entry)
        /\ \A k \in DOMAIN relQueue : k # i => \E j \in DOMAIN r : r[j] = relQueue[k]
        /\ \A j \in DOMAIN r : \E k \in DOMAIN relQueue : k # i /\ r[j] = relQueue[k]
      BY <1>1, Removed
  <2>4. OnceEach(r)
      BY <1>1, Removed DEF OnceEach
  <2>5. relQueue' = r
      BY <2>1
  <2> HIDE DEF r
  <2> QED
      BY <2>2, <2>3, <2>4, <2>5
<1>3. CASE ~ Queued(b)
  <2>1. relQueue' = relQueue
      BY <1>3 DEF Cancelled, RemoveFromWaitQueue
  <2> QED
      BY <1>1, <1>3, <2>1 DEF Queued, Waiter
<1> QED
    BY <1>2, <1>3

\* A cancel interrupts only the waits of the backend it is for.
LEMMA CancelSpares ==
    ASSUME BaseInv, NEW b \in Backend, status[b] = "active", Cancelled(b),
           NEW e \in Lasting, From(e) # gxid[b]
    PROVE  e \in Lasting'
<1>u. /\ UNCHANGED <<gxid, writer, tuplock, want, rel>>
      /\ status' = [status EXCEPT ![b] = "ending"]
    BY DEF Cancelled
<1>1. e \in Edge
    BY WhoWaits
<1> DEFINE s == Segment(e)
           d == Solid(e)
<1>2. PICK w, h \in Backend : /\ gxid[w] = From(e) /\ gxid[h] = To(e) /\ gxid[w] # 0 /\ gxid[h] # 0
                              /\ status[w] = "active" /\ WaitsFor(w, h, s, d)
    BY WhoWaits
<1> HIDE DEF s, d
<1>3. w # b
    BY <1>2
<1>4. status'[w] = "active"
    BY <1>u, <1>2, <1>3 DEF BaseInv, TypeOK
<1>5. WaitsFor(w, h, s, d)'
  <2>1. CASE s = Coord
    <3>1. /\ d /\ w # h /\ rel[w] = "none"
          /\ \E i \in DOMAIN relQueue : Waiter(i) = w /\ Conflicts(rel[h], Mode(i))
        BY <1>2, <2>1, GddAssumption DEF WaitsFor, QE
    <3>2. PICK i \in DOMAIN relQueue : relQueue[i][1] = w /\ Conflicts(rel[h], relQueue[i][2])
        BY <3>1 DEF Waiter, Mode
    <3>3. PICK j \in DOMAIN relQueue' : relQueue'[j] = relQueue[i]
        BY <1>3, <3>2, CancelFacts
    <3>4. Waiter(j)' = w /\ Conflicts(rel[h], Mode(j))'
        BY <1>u, <3>2, <3>3 DEF Waiter, Mode, Conflicts
    <3> QED
        BY <1>u, <2>1, <3>1, <3>4 DEF WaitsFor
  <2>2. CASE s # Coord
      BY <1>u, <1>2, <2>2 DEF WaitsFor
  <2> QED
      BY <2>1, <2>2
<1> QED
    BY <1>u, <1>1, <1>2, <1>4, <1>5 DEF Lasting, s, d

\* Types and locks after a cancel.
LEMMA BaseCancel ==
    ASSUME BaseInv, NEW b \in Backend, status[b] = "active", Cancelled(b)
    PROVE  /\ XactInv' /\ LockInv'
           /\ pc' \in {"sleep", "cancel"} /\ victims' \subseteq Int /\ pid' = NoBackend
              /\ UNCHANGED <<rows, pending, graph>> => TypeOK'
<1>t. TypeOK /\ XactInv /\ LockInv
    BY DEF BaseInv
<1>u. /\ UNCHANGED <<nextGxid, gxid, endedOn, writer, tuplock, want, rel>>
      /\ status' = [status EXCEPT ![b] = "ending"]
    BY DEF Cancelled
<1>q. /\ relQueue' \in Seq(Entry) /\ OnceEach(relQueue')
      /\ \A j \in DOMAIN relQueue' : \E k \in DOMAIN relQueue : relQueue[k][1] # b /\ relQueue'[j] = relQueue[k]
    BY CancelFacts
<1>1. XactInv'
    BY <1>t, <1>u DEF XactInv, TypeOK
<1>2. LockInv'
  <2>1. ASSUME NEW c \in Backend, NEW q \in QE, want[c][q] # "none" \/ writer[q] = c
        PROVE  status'[c] \in {"active", "ending"} /\ q \notin endedOn[c]
      BY <1>t, <1>u, <2>1 DEF LockInv, TypeOK
  <2>2. \A k \in DOMAIN relQueue : relQueue[k][1] # b => /\ status'[relQueue[k][1]] = "active"
                                                         /\ rel[relQueue[k][1]] # "excl"
    <3>1. \A k \in DOMAIN relQueue : relQueue[k] \in Backend \X {"share", "excl"}
      <4>1. relQueue \in Seq(Backend \X {"share", "excl"})
          BY <1>t DEF TypeOK
      <4> QED
          BY <4>1
    <3> QED
        BY <1>t, <1>u, <3>1 DEF LockInv, TypeOK, Waiter
  <2>3. \A j \in DOMAIN relQueue' : status'[relQueue'[j][1]] = "active" /\ rel'[relQueue'[j][1]] # "excl"
      BY <1>u, <1>q, <2>2
  <2> QED
      BY <1>u, <1>q, <2>1, <2>3 DEF LockInv, OnceEach, Waiter
<1>3. ASSUME pc' \in {"sleep", "cancel"}, victims' \subseteq Int, pid' = NoBackend, UNCHANGED <<rows, pending, graph>>
      PROVE  TypeOK'
    BY <1>t, <1>u, <1>q, <1>3 DEF TypeOK, Entry
<1> QED
    BY <1>1, <1>2, <1>3

\* The signal keeps the invariant: the victims that are left do not need the
\* one that is interrupted.
LEMMA SignalKeeps ==
    ASSUME GddInv, Signal
    PROVE  GddInv'
<1>b. BaseInv
    BY DEF GddInv, BaseInv
<1>1. /\ pc = "signal" /\ pid' = NoBackend /\ UNCHANGED <<rows, pending, graph>>
      /\ victims' = victims \ {NextVictim} /\ pc' = IF victims' = {} THEN "sleep" ELSE "cancel"
    BY DEF Signal
<1>2. pid \in Backend /\ gxid[pid] = NextVictim /\ victims # {} /\ graph = {} /\ rows = [s \in Seg |-> {}]
    BY <1>1 DEF GddInv, RoundInv
<1>3. NextVictim \in victims /\ \A v \in victims : v <= NextVictim
    BY <1>2, NextVictimFact
<1>4. victims' \subseteq Int /\ victims' \subseteq victims /\ pc' \in {"sleep", "cancel"}
    BY <1>1 DEF GddInv, TypeOK
<1>5. /\ TypeOK' /\ XactInv' /\ LockInv'
      /\ \A e \in Lasting : From(e) # NextVictim => e \in Lasting'
  <2>1. CASE status[pid] = "active" /\ Cancelled(pid)
    <3>1. XactInv' /\ LockInv' /\ TypeOK'
        BY <1>b, <1>1, <1>2, <1>4, <2>1, BaseCancel
    <3>2. \A e \in Lasting : From(e) # NextVictim => e \in Lasting'
        BY <1>b, <1>2, <2>1, CancelSpares
    <3> QED
        BY <3>1, <3>2
  <2>2. CASE UNCHANGED <<xactVars, lockVars>>
    <3>1. Lasting' = Lasting /\ XactInv' /\ LockInv'
        BY <1>b, <2>2, SameWaits
    <3>2. TypeOK'
      <4>1. UNCHANGED <<nextGxid, gxid, status, endedOn>> /\ UNCHANGED <<writer, tuplock, want, rel, relQueue>>
          BY <2>2 DEF xactVars, lockVars
      <4> QED
          BY <1>1, <1>4, <4>1 DEF GddInv, TypeOK
    <3> QED
        BY <3>1, <3>2
  <2> QED
      BY <2>1, <2>2 DEF Signal
<1>6. RoundInv'
  <2>1. pending \subseteq Seg
      BY DEF GddInv, TypeOK
  <2> QED
      BY <1>1, <1>2, <2>1 DEF RoundInv
<1>7. RowsInv'
  <2>1. rows' = [s \in Seg |-> {}]
      BY <1>1, <1>2
  <2>2. Collected' = {}
      BY <2>1 DEF Collected
  <2>3. Stale' = {}
      BY <2>2 DEF Stale
  <2> QED
      BY <2>1, <2>2, <2>3 DEF RowsInv
<1>8. BreakInv'
    BY <1>1, <1>2 DEF BreakInv, Persists
<1>9. VictimInv'
  <2> SUFFICES ASSUME NEW v \in victims'
               PROVE  /\ v \in Vid
                      /\ \E E \in SUBSET Lasting' :
                            /\ Persists(E) /\ HasOut(E, v)
                            /\ \A u \in victims' : v < u => ~ HasIn(E, u) /\ ~ HasOut(E, u)
      BY DEF VictimInv
  <2>1. v \in victims /\ v # NextVictim
      BY <1>1
  <2>2. PICK E \in SUBSET Lasting :
              /\ Persists(E) /\ HasOut(E, v)
              /\ \A u \in victims : v < u => ~ HasIn(E, u) /\ ~ HasOut(E, u)
      BY <2>1 DEF GddInv, VictimInv
  <2>3. v \in Int /\ NextVictim \in Int /\ v < NextVictim
    <3>1. v \in Int /\ NextVictim \in Int /\ v <= NextVictim
        BY <1>3, <2>1 DEF GddInv, TypeOK
    <3> QED
        BY <2>1, <3>1
  <2>4. ~ HasOut(E, NextVictim)
      BY <1>3, <2>2, <2>3
  <2>5. E \subseteq Lasting'
      BY <1>5, <2>2, <2>4 DEF HasOut
  <2>6. v \in Vid
      BY <2>1 DEF GddInv, VictimInv
  <2> QED
      BY <1>4, <2>2, <2>5, <2>6
<1> QED
    BY <1>5, <1>6, <1>7, <1>8, <1>9 DEF GddInv

\* Every step of the detector keeps the invariant.
LEMMA DetectorKeeps ==
    ASSUME Undisturbed, GddInv, Detector
    PROVE  GddInv'
<1>1. ASSUME NEW q \in QE, CollectSegment(q) PROVE GddInv'
  <2>1. /\ q \in Seg /\ q \in pending /\ pc = "collect" /\ rows' = [rows EXCEPT ![q] = SegmentRows(q)]
        /\ pending' = pending \ {q} /\ pc' \in {"collect", "build"}
        /\ UNCHANGED <<xactVars, lockVars, graph, victims, pid>>
      BY <1>1 DEF CollectSegment, QE
  <2> QED
      BY <2>1, CollectKeeps
<1>2. CASE CollectCoord
  <2>1. /\ Coord \in Seg /\ Coord \in pending /\ pc = "collect" /\ rows' = [rows EXCEPT ![Coord] = CoordRows]
        /\ pending' = pending \ {Coord} /\ pc' \in {"collect", "build"}
        /\ UNCHANGED <<xactVars, lockVars, graph, victims, pid>>
      BY <1>2, GddAssumption DEF CollectCoord
  <2> QED
      BY <2>1, CollectKeeps
<1> QED
    BY <1>1, <1>2, BuildKeeps, BreakKeeps, LookupKeeps, SignalKeeps DEF Detector

-----------------------------------------------------------------------------
(* Theorems                                                                 *)

\* Before the first transaction there is nothing to wait for.
LEMMA InitInv == Init => GddInv
<1> SUFFICES ASSUME Init PROVE GddInv
    OBVIOUS
<1>1. nextGxid \in Nat /\ 0 < nextGxid
  <2> DEFINE R == {ss \in Nat \X Nat : ss[1] < ss[2]}
  <2>1. IsWellFoundedOn(R, Nat)
      BY NatLessThanWellFounded DEF OpToRel
  <2>2. Vid \subseteq Nat /\ Vid # {} /\ 0 \notin Vid
      BY GraphAssumption, GddAssumption
  <2> HIDE DEF R
  <2>3. PICK x \in Vid : \A y \in Vid : ~ (<<y, x>> \in R)
      BY <2>1, <2>2, WFMin
  <2>4. \A y \in Vid : x <= y
    <3> SUFFICES ASSUME NEW y \in Vid PROVE x <= y
        OBVIOUS
    <3>1. x \in Nat /\ y \in Nat /\ ~ (<<y, x>> \in R)
        BY <2>2, <2>3
    <3> QED
        BY <3>1 DEF R
  <2>5. nextGxid \in Vid
      BY <2>4 DEF Init
  <2> QED
      BY <2>2, <2>5
<1>2. TypeOK
    BY <1>1, GddAssumption DEF Init, TypeOK
<1>3. XactInv
    BY <1>1 DEF Init, XactInv
<1>4. LockInv
    BY GddAssumption DEF Init, LockInv
<1>5. RoundInv
    BY DEF Init, RoundInv
<1>6. RowsInv
  <2>1. Collected = {}
      BY DEF Init, Collected
  <2>2. Stale = {}
      BY <2>1 DEF Stale
  <2> QED
      BY <2>1, <2>2 DEF Init, RowsInv
<1>7. BreakInv /\ VictimInv
    BY DEF Init, BreakInv, VictimInv, Persists
<1> QED
    BY <1>2, <1>3, <1>4, <1>5, <1>6, <1>7 DEF GddInv

\* Nor does anything change when nothing happens.
LEMMA StutterInv ==
    ASSUME GddInv, UNCHANGED vars
    PROVE  GddInv'
<1>b. BaseInv
    BY DEF GddInv, BaseInv
<1>u. UNCHANGED <<xactVars, lockVars>> /\ UNCHANGED <<pc, rows, pending, graph, victims, pid>>
    BY DEF vars, gddVars
<1>x. UNCHANGED <<nextGxid, gxid, status, endedOn>> /\ UNCHANGED <<writer, tuplock, want, rel, relQueue>>
    BY <1>u DEF xactVars, lockVars
<1>w. Lasting' = Lasting /\ XactInv' /\ LockInv'
    BY <1>b, <1>u, SameWaits
<1>1. TypeOK'
    BY <1>u, <1>x DEF GddInv, TypeOK
<1>2. RoundInv'
    BY <1>u, <1>x DEF GddInv, RoundInv, NextVictim
<1>3. RowsInv'
  <2>1. Collected' = Collected /\ Stale' = Stale
      BY <1>u, <1>w DEF Collected, Stale
  <2>2. \A e : Over(e)' <=> Over(e)
      BY <1>x DEF Over
  <2> QED
      BY <1>u, <1>x, <2>1, <2>2 DEF GddInv, RowsInv
<1>4. BreakInv' /\ VictimInv'
    BY <1>u, <1>w DEF GddInv, BreakInv, VictimInv
<1> QED
    BY <1>w, <1>1, <1>2, <1>3, <1>4 DEF GddInv

(* What a round of the detector rests on (gddbackend.c): of the rows it has *)
(* read, those that no longer hold make no deadlock; what is left in its    *)
(* graph and every victim is in a deadlock that is still there.             *)
THEOREM DetectorInvariance ==
    ASSUME Undisturbed
    PROVE  Spec => []GddInv
<1>1. Init => GddInv
    BY InitInv
<1>2. GddInv /\ [Next]_vars => GddInv'
    BY StepCases, XactKeeps, DetectorKeeps, StutterInv
<1> QED
    BY <1>1, <1>2, PTL DEF Spec

(* The assertion of breakDeadLock() that GetPidByGxid() finds the victim    *)
(* never fails.                                                             *)
THEOREM VictimAlwaysRuns ==
    ASSUME Undisturbed
    PROVE  Spec => []VictimRuns
<1>1. GddInv => VictimRuns
    BY GddAssumption DEF GddInv, RoundInv, VictimRuns
<1> QED
    BY <1>1, DetectorInvariance, PTL

(* The waits for a row's writer, for a tuple lock, for a holder of the      *)
(* relation lock and behind another waiter: the four parts of WaitEdges.    *)
RowWaits(q) ==
    {<<q, gxid[b], gxid[writer[q]], TRUE>> :
       b \in {x \in Backend : want[x][q] = "xid" /\ status[x] = "active" /\ writer[q] # NoBackend}}

TupleWaits(q) ==
    {<<q, gxid[b], gxid[tuplock[q]], FALSE>> :
       b \in {x \in Backend : want[x][q] = "tuple" /\ status[x] = "active" /\ tuplock[q] # NoBackend}}

HolderWaits(i) ==
    {<<Coord, gxid[Waiter(i)], gxid[c], TRUE>> :
       c \in {x \in Backend \ {Waiter(i)} : Conflicts(rel[x], Mode(i))}}

QueueWaits(i) ==
    {<<Coord, gxid[Waiter(i)], gxid[Waiter(j)], FALSE>> :
       j \in {k \in 1 .. i - 1 : Conflicts(Mode(k), Mode(i))}}

\* A wait of one of the first three kinds is in WaitEdges.
LEMMA WaitParts ==
    \A x : (/\ 0 \notin {From(x), To(x)}
            /\ \/ \E q \in QE : x \in RowWaits(q) \/ x \in TupleWaits(q)
               \/ \E i \in DOMAIN relQueue : x \in HolderWaits(i)) => x \in WaitEdges
<1> DEFINE R == UNION {RowWaits(q) \cup TupleWaits(q) : q \in QE}
           H == UNION {HolderWaits(i) \cup QueueWaits(i) : i \in DOMAIN relQueue}
<1>1. WaitEdges = {x \in R \cup H : 0 \notin {From(x), To(x)}}
    BY Zenon DEF WaitEdges, RowWaits, TupleWaits, HolderWaits, QueueWaits
<1>2. \A x : (\E q \in QE : x \in RowWaits(q) \/ x \in TupleWaits(q)) => x \in R
    OBVIOUS
<1>3. \A x : (\E i \in DOMAIN relQueue : x \in HolderWaits(i)) => x \in H
    OBVIOUS
<1> HIDE DEF R, H
<1> QED
    BY <1>1, <1>2, <1>3

\* The waits that last are true waits.
LEMMA LastingTrue ==
    ASSUME BaseInv
    PROVE  Lasting \subseteq WaitEdges
<1> SUFFICES ASSUME NEW e \in Lasting PROVE e \in WaitEdges
    OBVIOUS
<1>1. e \in Edge /\ From(e) # 0 /\ To(e) # 0
    BY WhoWaits
<1>2. PICK w, h \in Backend : /\ gxid[w] = From(e) /\ gxid[h] = To(e)
                              /\ status[w] = "active" /\ WaitsFor(w, h, Segment(e), Solid(e))
    BY WhoWaits
<1>3. e = <<Segment(e), gxid[w], gxid[h], Solid(e)>> /\ Solid(e) \in BOOLEAN
    BY <1>1, <1>2 DEF Edge, Segment, From, To, Solid
<1>0. NoBackend \notin Backend
    BY GddAssumption
<1>z. 0 \notin {From(e), To(e)}
    BY <1>1
<1>4. CASE Segment(e) \in QE /\ Solid(e) /\ want[w][Segment(e)] = "xid" /\ writer[Segment(e)] = h
  <2>1. e = <<Segment(e), gxid[w], gxid[writer[Segment(e)]], TRUE>> /\ writer[Segment(e)] # NoBackend
      BY <1>0, <1>3, <1>4
  <2>2. e \in RowWaits(Segment(e))
      BY <1>2, <1>4, <2>1 DEF RowWaits
  <2> QED
      BY <1>4, <1>z, <2>2, WaitParts
<1>5. CASE Segment(e) \in QE /\ ~ Solid(e) /\ want[w][Segment(e)] = "tuple" /\ tuplock[Segment(e)] = h
  <2>1. e = <<Segment(e), gxid[w], gxid[tuplock[Segment(e)]], FALSE>> /\ tuplock[Segment(e)] # NoBackend
      BY <1>0, <1>3, <1>5
  <2>2. e \in TupleWaits(Segment(e))
      BY <1>2, <1>5, <2>1 DEF TupleWaits
  <2> QED
      BY <1>5, <1>z, <2>2, WaitParts
<1>6. CASE /\ Segment(e) = Coord /\ Solid(e) /\ w # h
           /\ \E i \in DOMAIN relQueue : Waiter(i) = w /\ Conflicts(rel[h], Mode(i))
  <2>1. PICK i \in DOMAIN relQueue : Waiter(i) = w /\ Conflicts(rel[h], Mode(i))
      BY <1>6
  <2>2. e = <<Coord, gxid[Waiter(i)], gxid[h], TRUE>> /\ h \in Backend \ {Waiter(i)}
      BY <1>3, <1>6, <2>1
  <2>3. e \in HolderWaits(i)
      BY <2>1, <2>2 DEF HolderWaits
  <2> QED
      BY <1>z, <2>1, <2>3, WaitParts
<1> QED
    BY <1>2, <1>4, <1>5, <1>6 DEF WaitsFor

(* The detector raises no false alarm: a transaction it interrupts is in a  *)
(* deadlock at that moment, although the waits were read node by node,      *)
(* earlier victims have gone and the backend was looked up before.          *)
THEOREM DetectorRaisesNoFalseAlarm ==
    ASSUME Undisturbed
    PROVE  Spec => NoFalseAlarm
<1> DEFINE Just == \A b \in Backend :
                      (pc = "signal" /\ status[b] = "active" /\ status'[b] = "ending" /\ pc' # pc)
                         => gxid[b] \in Deadlocked(WaitEdges)
<1>1. GddInv /\ [Next]_vars => [Just]_vars
  <2> SUFFICES ASSUME GddInv, Next, NEW b \in Backend,
                      pc = "signal", status[b] = "active", status'[b] = "ending", pc' # pc
               PROVE  gxid[b] \in Deadlocked(WaitEdges)
      OBVIOUS
  <2>1. Signal
      BY StepCases, DetectorWaits DEF Detector, StartRound, CollectSegment, CollectCoord, buildWaitGraph,
                                      BreakCycle, EndBreak, GetPidByGxid
  <2>2. pid \in Backend /\ gxid[pid] = NextVictim /\ victims # {}
      BY DEF GddInv, RoundInv
  <2>3. b = pid
      BY <2>1, <2>2 DEF Signal, Cancelled, xactVars, GddInv, TypeOK
  <2>4. NextVictim \in victims
      BY <2>2, NextVictimFact
  <2>5. NextVictim \in Vid /\ \E E \in SUBSET Lasting : Persists(E) /\ HasOut(E, NextVictim)
      BY <2>4 DEF GddInv, VictimInv
  <2>6. Lasting \subseteq WaitEdges
      BY LastingTrue DEF GddInv, BaseInv
  <2>7. \E E \in SUBSET WaitEdges : Persists(E) /\ HasOut(E, NextVictim)
      BY <2>5, <2>6
  <2> HIDE DEF Just
  <2> QED
      BY <2>2, <2>3, <2>5, <2>7 DEF Deadlocked
<1> QED
    BY <1>1, DetectorInvariance, PTL DEF Spec, NoFalseAlarm
=============================================================================
