-------------------------- MODULE GxactOrderProofs --------------------------
(***************************************************************************)
(* Proof that a transaction which waited for a writer, and wrote on top of *)
(* it, does not end on the coordinator before that writer: for any number  *)
(* of transactions and segments, and any width of the ints that carry the  *)
(* waited-for gxids.                                                       *)
(***************************************************************************)
EXTENDS GxactOrder, TLAPS, WellFoundedInduction

-----------------------------------------------------------------------------
(* The inductive invariant                                                  *)

\* A gxid belongs to one transaction, whose lock on it is held from its
\* activation until it has ended.
GxidInv ==
    /\ nextGxid \in Nat
    /\ \A t \in Gxact :
          /\ gxid[t] \in Nat
          /\ qd[t] # "idle" => gxid[t] < nextGxid
          /\ qd[t] \notin {"idle", "ended"} => gxid[t] \in locked
    /\ \A t, u \in Gxact :
          (qd[t] # "idle" /\ qd[u] # "idle" /\ gxid[t] = gxid[u]) => t = u

\* How far a transaction is on a segment, by its progress on the coordinator.
\* An end without failure is the same end on all segments.
PhaseInv ==
    \A t \in Gxact :
        /\ qd[t] = "retry" => t \in failed
        /\ \A s \in Seg :
              /\ qd[t] = "idle" => xact[s][t] = "none"
              /\ qd[t] = "active" => xact[s][t] \in {"none", "running"}
              /\ qd[t] \in {"onePhase", "notifying", "retry"} => xact[s][t] # "aborted"
              /\ qd[t] = "waiting" => xact[s][t] \in {"none", "committed"}
        /\ (qd[t] \in {"ending", "ended"} /\ t \notin failed) =>
              \/ \A s \in Seg : xact[s][t] \in {"none", "committed"}
              \/ \A s \in Seg : xact[s][t] \in {"none", "aborted"}

\* A QE waits while its transaction is active, for one that has written.
BlockInv ==
    \A s \in Seg, t \in Gxact :
        blocker[s][t] # NoGxact =>
            /\ qd[t] = "active"
            /\ blocker[s][t] \in Gxact
            /\ xact[s][blocker[s][t]] # "none"

\* Who overwrote a version has written.
OrderInv ==
    \A p \in order : xact[p.seg][p.second] # "none"

\* Where the gxid of a waited-for transaction is, from the report on the segment
\* until the coordinator has waited for it.
Tracked(r) ==
    LET g == gxid[r.first]
        x == xact[r.seg][r.second]
        q == qd[r.second]
    IN  /\ q = "active" => g \in qeWaits[r.seg][r.second]
        /\ q \in {"onePhase", "notifying"} =>
              /\ x \in {"running", "prepared"} => g \in qeWaits[r.seg][r.second]
              /\ x = "committed" => g \in reply[r.second]
        /\ (q = "waiting" /\ x = "committed") => g \in waitGxids[r.second]
        /\ (q \in {"ending", "ended"} /\ x = "committed") => Ended(r.first)

ReportInv ==
    \A r \in reports :
        /\ xact[r.seg][r.first] # "none"
        /\ qd[r.second] # "idle"
        /\ (r.state \in {"running", "committed"} /\ r.second \notin failed /\ Fits(r.first)) =>
              Tracked(r)

OrderingInv == TypeOK /\ GxidInv /\ PhaseInv /\ BlockInv /\ OrderInv /\ ReportInv

-----------------------------------------------------------------------------
(* Operators                                                                *)

\* A non-empty set of naturals with a bound has a greatest element.
LEMMA MaxFact ==
    ASSUME NEW N \in Nat, NEW S \in SUBSET (0 .. N), S # {}
    PROVE  Max(S) \in S /\ \A y \in S : y <= Max(S)
<1> DEFINE R == {ss \in Nat \X Nat : ss[1] < ss[2]}
           T == {N - x : x \in S}
<1>1. IsWellFoundedOn(R, Nat)
    BY NatLessThanWellFounded DEF OpToRel
<1>2. T \subseteq Nat /\ T # {}
  <2>1. \A x \in S : N - x \in Nat
      OBVIOUS
  <2>2. PICK x \in S : TRUE
      OBVIOUS
  <2>3. N - x \in T
      OBVIOUS
  <2> QED
      BY <2>1, <2>3
<1> HIDE DEF R, T
<1>3. PICK t \in T : \A u \in T : ~ (<<u, t>> \in R)
    BY <1>1, <1>2, WFMin
<1>4. PICK x \in S : t = N - x
    BY DEF T
<1>5. ASSUME NEW y \in S PROVE x >= y
  <2>1. N - y \in T /\ N - y \in Nat /\ t \in Nat
      BY <1>2 DEF T
  <2>2. ~ (N - y < t)
      BY <1>3, <2>1 DEF R
  <2> QED
      BY <1>4, <2>2
<1> QED
    BY <1>5 DEF Max

\* The last writer is a transaction, or there is none.
LEMMA LastWriterType ==
    ASSUME TypeOK, NEW s \in Seg
    PROVE  LastWriter(s) \in Gxact \cup {NoGxact}
<1> DEFINE kept == {i \in DOMAIN writers[s] : xact[s][writers[s][i]] # "aborted"}
<1>1. writers[s] \in Seq(Gxact)
    BY DEF TypeOK
<1>2. Len(writers[s]) \in Nat /\ kept \in SUBSET (0 .. Len(writers[s]))
    BY <1>1
<1>3. CASE kept = {}
    BY <1>3 DEF LastWriter
<1>4. CASE kept # {}
  <2>1. Max(kept) \in kept
      BY <1>2, <1>4, MaxFact
  <2>2. Max(kept) \in DOMAIN writers[s]
      BY <2>1
  <2>3. LastWriter(s) = writers[s][Max(kept)]
      BY <1>4 DEF LastWriter
  <2> HIDE DEF kept
  <2> QED
      BY <1>1, <2>2, <2>3
<1> QED
    BY <1>3, <1>4

\* An int is an integer, and a gxid below the sign bit is itself.
LEMMA ToIntFacts ==
    ASSUME NEW g \in Nat
    PROVE  ToInt(g) \in Int /\ (g < SignBit => ToInt(g) = g)
<1>1. g % (2 * SignBit) \in Int /\ (g < SignBit => g % (2 * SignBit) = g)
    BY OrderAssumption
<1> QED
    BY <1>1, OrderAssumption DEF ToInt

\* What a QE is told of a transaction: nothing, or its gxid.
LEMMA LocalXidFacts ==
    ASSUME TypeOK, NEW s \in Seg, NEW u \in Gxact
    PROVE  /\ {ToInt(g) : g \in LocalXidGetDistributedXid(s, u)} \subseteq Int
           /\ (xact[s][u] \in {"running", "committed"} /\ Fits(u)) =>
                 gxid[u] \in {ToInt(g) : g \in LocalXidGetDistributedXid(s, u)}
<1>1. gxid[u] \in Nat
    BY DEF TypeOK
<1>2. ToInt(gxid[u]) \in Int /\ (Fits(u) => ToInt(gxid[u]) = gxid[u])
    BY <1>1, ToIntFacts DEF Fits
<1> QED
    BY <1>2 DEF LocalXidGetDistributedXid

-----------------------------------------------------------------------------
(* Steps                                                                    *)

\* The types are kept.
LEMMA TypeStep == TypeOK /\ [Next]_vars => TypeOK'
<1> SUFFICES ASSUME TypeOK, [Next]_vars PROVE TypeOK'
    OBVIOUS
<1> USE OrderAssumption
<1>1. ASSUME NEW t \in Gxact, currentDtxActivate(t) PROVE TypeOK'
    BY <1>1 DEF currentDtxActivate, qdVars, segVars, histVars, TypeOK
<1>2. ASSUME NEW t \in Gxact, NEW s \in Seg, FindBlocker(t, s) PROVE TypeOK'
  <2>1. LastWriter(s) \in Gxact
      BY <1>2, LastWriterType DEF FindBlocker
  <2>2. blocker' \in [Seg -> [Gxact -> Gxact \cup {NoGxact}]]
      BY <1>2, <2>1 DEF FindBlocker, TypeOK
  <2>3. \A s0 \in Seg, t0 \in Gxact : sleeping'[s0][t0] => blocker'[s0][t0] # NoGxact
      BY <1>2, <2>1 DEF FindBlocker, TypeOK
  <2> QED
      BY <1>2, <2>2, <2>3 DEF FindBlocker, qdVars, histVars, TypeOK
<1>3. ASSUME NEW t \in Gxact, NEW s \in Seg, ReportWait(t, s) PROVE TypeOK'
  <2> DEFINE u == blocker[s][t]
             W == {ToInt(g) : g \in LocalXidGetDistributedXid(s, u)}
  <2>1. u \in Gxact
      BY <1>3 DEF ReportWait, TypeOK
  <2>2. W \subseteq Int
      BY <2>1, LocalXidFacts
  <2>3. qeWaits' = [qeWaits EXCEPT ![s][t] = @ \cup W]
      BY <1>3 DEF ReportWait
  <2>4. qeWaits' \in [Seg -> [Gxact -> SUBSET Int]]
    <3> HIDE DEF W
    <3> QED
        BY <2>2, <2>3 DEF TypeOK
  <2>5. [seg |-> s, first |-> u, second |-> t, state |-> xact[s][u]]
            \in [seg : Seg, first : Gxact, second : Gxact,
                  state : {"none", "running", "prepared", "committed", "aborted"}]
    <3>1. xact[s][u] \in {"none", "running", "prepared", "committed", "aborted"}
        BY <2>1 DEF TypeOK
    <3> HIDE DEF u
    <3> QED
        BY <2>1, <3>1
  <2>6. reports' \subseteq [seg : Seg, first : Gxact, second : Gxact,
                  state : {"none", "running", "prepared", "committed", "aborted"}]
      BY <1>3, <2>5 DEF ReportWait, TypeOK
  <2>7. /\ sleeping' \in [Seg -> [Gxact -> BOOLEAN]]
        /\ \A s0 \in Seg, t0 \in Gxact : sleeping'[s0][t0] => blocker'[s0][t0] # NoGxact
      BY <1>3 DEF ReportWait, TypeOK
  <2> QED
      BY <1>3, <2>4, <2>6, <2>7 DEF ReportWait, qdVars, TypeOK
<1>4. ASSUME NEW t \in Gxact, NEW s \in Seg, EndWait(t, s) PROVE TypeOK'
    BY <1>4 DEF EndWait, qdVars, segVars, histVars, TypeOK
<1>5. ASSUME NEW t \in Gxact, NEW s \in Seg, WriteRow(t, s) PROVE TypeOK'
  <2> DEFINE N == {[seg |-> s, first |-> u, second |-> t] : u \in {LastWriter(s)} \ {NoGxact}}
  <2>1. N \subseteq [seg : Seg, first : Gxact, second : Gxact]
      BY LastWriterType
  <2>2. order' = order \cup N
      BY <1>5 DEF WriteRow
  <2> HIDE DEF N
  <2>3. order' \subseteq [seg : Seg, first : Gxact, second : Gxact]
      BY <2>1, <2>2 DEF TypeOK
  <2>4. writers' \in [Seg -> Seq(Gxact)]
      BY <1>5 DEF WriteRow, TypeOK
  <2>5. xact' \in [Seg -> [Gxact -> {"none", "running", "prepared", "committed", "aborted"}]]
      BY <1>5 DEF WriteRow, TypeOK
  <2> QED
      BY <1>5, <2>3, <2>4, <2>5 DEF WriteRow, qdVars, TypeOK
<1>6. ASSUME NEW t \in Gxact, NEW s \in Seg, CommitOnSegment(t, s) PROVE TypeOK'
    BY <1>6 DEF CommitOnSegment, qdVars, segVars, histVars, TypeOK
<1>7. ASSUME NEW t \in Gxact, AbortTransaction(t) PROVE TypeOK'
    BY <1>7 DEF AbortTransaction, qdVars, segVars, histVars, TypeOK
<1>8. ASSUME NEW t \in Gxact, StartOnePhase(t) PROVE TypeOK'
    BY <1>8 DEF StartOnePhase, qdVars, segVars, histVars, TypeOK
<1>9. ASSUME NEW t \in Gxact, PrepareAndRecord(t) PROVE TypeOK'
    BY <1>9 DEF PrepareAndRecord, qdVars, segVars, histVars, TypeOK
<1>10. ASSUME NEW t \in Gxact, DispatchFails(t) PROVE TypeOK'
    BY <1>10 DEF DispatchFails, qdVars, segVars, histVars, TypeOK
<1>11. ASSUME NEW t \in Gxact, OnePhaseFails(t) PROVE TypeOK'
    BY <1>11 DEF OnePhaseFails, qdVars, segVars, histVars, TypeOK
<1>12. ASSUME NEW t \in Gxact, GatherWaits(t) PROVE TypeOK'
    BY <1>12 DEF GatherWaits, qdVars, segVars, histVars, TypeOK
<1>13. ASSUME NEW t \in Gxact, GxactLockTableWait(t) PROVE TypeOK'
    BY <1>13 DEF GxactLockTableWait, qdVars, segVars, histVars, TypeOK
<1>14. ASSUME NEW t \in Gxact, ProcArrayEndTransaction(t) PROVE TypeOK'
    BY <1>14 DEF ProcArrayEndTransaction, qdVars, segVars, histVars, TypeOK
<1>15. ASSUME NEW t \in Gxact, ReleaseLocks(t) PROVE TypeOK'
    BY <1>15 DEF ReleaseLocks, qdVars, segVars, histVars, TypeOK
<1>16. ASSUME UNCHANGED vars PROVE TypeOK'
    BY <1>16 DEF vars, qdVars, segVars, histVars, qdVars, segVars, histVars, TypeOK
<1> QED
    BY <1>1, <1>2, <1>3, <1>4, <1>5, <1>6, <1>7, <1>8, <1>9, <1>10, <1>11, <1>12, <1>13, <1>14, <1>15, <1>16 DEF Next

\* A transaction is alone with its gxid and keeps its lock.
LEMMA GxidStep == TypeOK /\ GxidInv /\ [Next]_vars => GxidInv'
<1> SUFFICES ASSUME TypeOK, GxidInv, [Next]_vars PROVE GxidInv'
    OBVIOUS
<1>1. ASSUME NEW t \in Gxact, currentDtxActivate(t) PROVE GxidInv'
    BY <1>1 DEF currentDtxActivate, qdVars, segVars, histVars, TypeOK, GxidInv
<1>2. ASSUME NEW t \in Gxact, NEW s \in Seg, FindBlocker(t, s) PROVE GxidInv'
    BY <1>2 DEF FindBlocker, qdVars, segVars, histVars, TypeOK, GxidInv
<1>3. ASSUME NEW t \in Gxact, NEW s \in Seg, ReportWait(t, s) PROVE GxidInv'
    BY <1>3 DEF ReportWait, qdVars, segVars, histVars, TypeOK, GxidInv
<1>4. ASSUME NEW t \in Gxact, NEW s \in Seg, EndWait(t, s) PROVE GxidInv'
    BY <1>4 DEF EndWait, qdVars, segVars, histVars, TypeOK, GxidInv
<1>5. ASSUME NEW t \in Gxact, NEW s \in Seg, WriteRow(t, s) PROVE GxidInv'
    BY <1>5 DEF WriteRow, qdVars, segVars, histVars, TypeOK, GxidInv
<1>6. ASSUME NEW t \in Gxact, NEW s \in Seg, CommitOnSegment(t, s) PROVE GxidInv'
    BY <1>6 DEF CommitOnSegment, qdVars, segVars, histVars, TypeOK, GxidInv
<1>7. ASSUME NEW t \in Gxact, AbortTransaction(t) PROVE GxidInv'
    BY <1>7 DEF AbortTransaction, qdVars, segVars, histVars, TypeOK, GxidInv
<1>8. ASSUME NEW t \in Gxact, StartOnePhase(t) PROVE GxidInv'
    BY <1>8 DEF StartOnePhase, qdVars, segVars, histVars, TypeOK, GxidInv
<1>9. ASSUME NEW t \in Gxact, PrepareAndRecord(t) PROVE GxidInv'
    BY <1>9 DEF PrepareAndRecord, qdVars, segVars, histVars, TypeOK, GxidInv
<1>10. ASSUME NEW t \in Gxact, DispatchFails(t) PROVE GxidInv'
    BY <1>10 DEF DispatchFails, qdVars, segVars, histVars, TypeOK, GxidInv
<1>11. ASSUME NEW t \in Gxact, OnePhaseFails(t) PROVE GxidInv'
    BY <1>11 DEF OnePhaseFails, qdVars, segVars, histVars, TypeOK, GxidInv
<1>12. ASSUME NEW t \in Gxact, GatherWaits(t) PROVE GxidInv'
    BY <1>12 DEF GatherWaits, qdVars, segVars, histVars, TypeOK, GxidInv
<1>13. ASSUME NEW t \in Gxact, GxactLockTableWait(t) PROVE GxidInv'
    BY <1>13 DEF GxactLockTableWait, qdVars, segVars, histVars, TypeOK, GxidInv
<1>14. ASSUME NEW t \in Gxact, ProcArrayEndTransaction(t) PROVE GxidInv'
    BY <1>14 DEF ProcArrayEndTransaction, qdVars, segVars, histVars, TypeOK, GxidInv
<1>15. ASSUME NEW t \in Gxact, ReleaseLocks(t) PROVE GxidInv'
    BY <1>15 DEF ReleaseLocks, qdVars, segVars, histVars, TypeOK, GxidInv
<1>16. ASSUME UNCHANGED vars PROVE GxidInv'
    BY <1>16 DEF vars, qdVars, segVars, histVars, qdVars, segVars, histVars, TypeOK, GxidInv
<1> QED
    BY <1>1, <1>2, <1>3, <1>4, <1>5, <1>6, <1>7, <1>8, <1>9, <1>10, <1>11, <1>12, <1>13, <1>14, <1>15, <1>16 DEF Next

\* The progress on the segments follows that on the coordinator.
LEMMA PhaseStep == TypeOK /\ PhaseInv /\ [Next]_vars => PhaseInv'
<1> SUFFICES ASSUME TypeOK, PhaseInv, [Next]_vars PROVE PhaseInv'
    OBVIOUS
<1>1. ASSUME NEW t \in Gxact, currentDtxActivate(t) PROVE PhaseInv'
    BY <1>1 DEF currentDtxActivate, qdVars, segVars, histVars, TypeOK, PhaseInv, InProgress, Participants
<1>2. ASSUME NEW t \in Gxact, NEW s \in Seg, FindBlocker(t, s) PROVE PhaseInv'
    BY <1>2 DEF FindBlocker, qdVars, segVars, histVars, TypeOK, PhaseInv, InProgress, Participants
<1>3. ASSUME NEW t \in Gxact, NEW s \in Seg, ReportWait(t, s) PROVE PhaseInv'
    BY <1>3 DEF ReportWait, qdVars, segVars, histVars, TypeOK, PhaseInv, InProgress, Participants
<1>4. ASSUME NEW t \in Gxact, NEW s \in Seg, EndWait(t, s) PROVE PhaseInv'
    BY <1>4 DEF EndWait, qdVars, segVars, histVars, TypeOK, PhaseInv, InProgress, Participants
<1>5. ASSUME NEW t \in Gxact, NEW s \in Seg, WriteRow(t, s) PROVE PhaseInv'
    BY <1>5 DEF WriteRow, qdVars, segVars, histVars, TypeOK, PhaseInv, InProgress, Participants
<1>6. ASSUME NEW t \in Gxact, NEW s \in Seg, CommitOnSegment(t, s) PROVE PhaseInv'
    BY <1>6 DEF CommitOnSegment, qdVars, segVars, histVars, TypeOK, PhaseInv, InProgress, Participants
<1>7. ASSUME NEW t \in Gxact, AbortTransaction(t) PROVE PhaseInv'
    BY <1>7 DEF AbortTransaction, qdVars, segVars, histVars, TypeOK, PhaseInv, InProgress, Participants
<1>8. ASSUME NEW t \in Gxact, StartOnePhase(t) PROVE PhaseInv'
    BY <1>8 DEF StartOnePhase, qdVars, segVars, histVars, TypeOK, PhaseInv, InProgress, Participants
<1>9. ASSUME NEW t \in Gxact, PrepareAndRecord(t) PROVE PhaseInv'
    BY <1>9 DEF PrepareAndRecord, qdVars, segVars, histVars, TypeOK, PhaseInv, InProgress, Participants
<1>10. ASSUME NEW t \in Gxact, DispatchFails(t) PROVE PhaseInv'
    BY <1>10 DEF DispatchFails, qdVars, segVars, histVars, TypeOK, PhaseInv, InProgress, Participants
<1>11. ASSUME NEW t \in Gxact, OnePhaseFails(t) PROVE PhaseInv'
    BY <1>11 DEF OnePhaseFails, qdVars, segVars, histVars, TypeOK, PhaseInv, InProgress, Participants
<1>12. ASSUME NEW t \in Gxact, GatherWaits(t) PROVE PhaseInv'
    BY <1>12 DEF GatherWaits, qdVars, segVars, histVars, TypeOK, PhaseInv, InProgress, Participants
<1>13. ASSUME NEW t \in Gxact, GxactLockTableWait(t) PROVE PhaseInv'
    BY <1>13 DEF GxactLockTableWait, qdVars, segVars, histVars, TypeOK, PhaseInv, InProgress, Participants
<1>14. ASSUME NEW t \in Gxact, ProcArrayEndTransaction(t) PROVE PhaseInv'
    BY <1>14 DEF ProcArrayEndTransaction, qdVars, segVars, histVars, TypeOK, PhaseInv, InProgress, Participants
<1>15. ASSUME NEW t \in Gxact, ReleaseLocks(t) PROVE PhaseInv'
    BY <1>15 DEF ReleaseLocks, qdVars, segVars, histVars, TypeOK, PhaseInv, InProgress, Participants
<1>16. ASSUME UNCHANGED vars PROVE PhaseInv'
    BY <1>16 DEF vars, qdVars, segVars, histVars, qdVars, segVars, histVars, TypeOK, PhaseInv, InProgress, Participants
<1> QED
    BY <1>1, <1>2, <1>3, <1>4, <1>5, <1>6, <1>7, <1>8, <1>9, <1>10, <1>11, <1>12, <1>13, <1>14, <1>15, <1>16 DEF Next

\* Who waits is active and waits for a writer.
LEMMA BlockStep == TypeOK /\ BlockInv /\ [Next]_vars => BlockInv'
<1> SUFFICES ASSUME TypeOK, BlockInv, [Next]_vars PROVE BlockInv'
    OBVIOUS
<1>1. ASSUME NEW t \in Gxact, currentDtxActivate(t) PROVE BlockInv'
    BY <1>1 DEF currentDtxActivate, qdVars, segVars, histVars, TypeOK, BlockInv, Unblocked, InProgress
<1>2. ASSUME NEW t \in Gxact, NEW s \in Seg, FindBlocker(t, s) PROVE BlockInv'
  <2>1. LastWriter(s) \in Gxact
      BY <1>2, LastWriterType DEF FindBlocker
  <2> DEFINE u == LastWriter(s)
  <2>2. u \in Gxact /\ xact[s][u] # "none" /\ qd[t] = "active" /\ UNCHANGED <<qd, xact>>
        /\ blocker' = [blocker EXCEPT ![s][t] = u]
      BY <1>2, <2>1 DEF FindBlocker, InProgress, qdVars
  <2> HIDE DEF u
  <2> QED
      BY <2>2 DEF TypeOK, BlockInv
<1>3. ASSUME NEW t \in Gxact, NEW s \in Seg, ReportWait(t, s) PROVE BlockInv'
    BY <1>3 DEF ReportWait, qdVars, segVars, histVars, TypeOK, BlockInv, Unblocked, InProgress
<1>4. ASSUME NEW t \in Gxact, NEW s \in Seg, EndWait(t, s) PROVE BlockInv'
    BY <1>4 DEF EndWait, qdVars, segVars, histVars, TypeOK, BlockInv, Unblocked, InProgress
<1>5. ASSUME NEW t \in Gxact, NEW s \in Seg, WriteRow(t, s) PROVE BlockInv'
    BY <1>5 DEF WriteRow, qdVars, segVars, histVars, TypeOK, BlockInv, Unblocked, InProgress
<1>6. ASSUME NEW t \in Gxact, NEW s \in Seg, CommitOnSegment(t, s) PROVE BlockInv'
    BY <1>6 DEF CommitOnSegment, qdVars, segVars, histVars, TypeOK, BlockInv, Unblocked, InProgress
<1>7. ASSUME NEW t \in Gxact, AbortTransaction(t) PROVE BlockInv'
    BY <1>7 DEF AbortTransaction, qdVars, segVars, histVars, TypeOK, BlockInv, Unblocked, InProgress
<1>8. ASSUME NEW t \in Gxact, StartOnePhase(t) PROVE BlockInv'
    BY <1>8 DEF StartOnePhase, qdVars, segVars, histVars, TypeOK, BlockInv, Unblocked, InProgress
<1>9. ASSUME NEW t \in Gxact, PrepareAndRecord(t) PROVE BlockInv'
    BY <1>9 DEF PrepareAndRecord, qdVars, segVars, histVars, TypeOK, BlockInv, Unblocked, InProgress
<1>10. ASSUME NEW t \in Gxact, DispatchFails(t) PROVE BlockInv'
    BY <1>10 DEF DispatchFails, qdVars, segVars, histVars, TypeOK, BlockInv, Unblocked, InProgress
<1>11. ASSUME NEW t \in Gxact, OnePhaseFails(t) PROVE BlockInv'
    BY <1>11 DEF OnePhaseFails, qdVars, segVars, histVars, TypeOK, BlockInv, Unblocked, InProgress
<1>12. ASSUME NEW t \in Gxact, GatherWaits(t) PROVE BlockInv'
    BY <1>12 DEF GatherWaits, qdVars, segVars, histVars, TypeOK, BlockInv, Unblocked, InProgress
<1>13. ASSUME NEW t \in Gxact, GxactLockTableWait(t) PROVE BlockInv'
    BY <1>13 DEF GxactLockTableWait, qdVars, segVars, histVars, TypeOK, BlockInv, Unblocked, InProgress
<1>14. ASSUME NEW t \in Gxact, ProcArrayEndTransaction(t) PROVE BlockInv'
    BY <1>14 DEF ProcArrayEndTransaction, qdVars, segVars, histVars, TypeOK, BlockInv, Unblocked, InProgress
<1>15. ASSUME NEW t \in Gxact, ReleaseLocks(t) PROVE BlockInv'
    BY <1>15 DEF ReleaseLocks, qdVars, segVars, histVars, TypeOK, BlockInv, Unblocked, InProgress
<1>16. ASSUME UNCHANGED vars PROVE BlockInv'
    BY <1>16 DEF vars, qdVars, segVars, histVars, qdVars, segVars, histVars, TypeOK, BlockInv, Unblocked, InProgress
<1> QED
    BY <1>1, <1>2, <1>3, <1>4, <1>5, <1>6, <1>7, <1>8, <1>9, <1>10, <1>11, <1>12, <1>13, <1>14, <1>15, <1>16 DEF Next

\* Who overwrote a version has written.
LEMMA OrderStep == TypeOK /\ OrderInv /\ [Next]_vars => OrderInv'
<1> SUFFICES ASSUME TypeOK, OrderInv, [Next]_vars PROVE OrderInv'
    OBVIOUS
<1>1. ASSUME NEW t \in Gxact, currentDtxActivate(t) PROVE OrderInv'
    BY <1>1 DEF currentDtxActivate, qdVars, segVars, histVars, TypeOK, OrderInv
<1>2. ASSUME NEW t \in Gxact, NEW s \in Seg, FindBlocker(t, s) PROVE OrderInv'
    BY <1>2 DEF FindBlocker, qdVars, segVars, histVars, TypeOK, OrderInv
<1>3. ASSUME NEW t \in Gxact, NEW s \in Seg, ReportWait(t, s) PROVE OrderInv'
    BY <1>3 DEF ReportWait, qdVars, segVars, histVars, TypeOK, OrderInv
<1>4. ASSUME NEW t \in Gxact, NEW s \in Seg, EndWait(t, s) PROVE OrderInv'
    BY <1>4 DEF EndWait, qdVars, segVars, histVars, TypeOK, OrderInv
<1>5. ASSUME NEW t \in Gxact, NEW s \in Seg, WriteRow(t, s) PROVE OrderInv'
    BY <1>5 DEF WriteRow, qdVars, segVars, histVars, TypeOK, OrderInv
<1>6. ASSUME NEW t \in Gxact, NEW s \in Seg, CommitOnSegment(t, s) PROVE OrderInv'
    BY <1>6 DEF CommitOnSegment, qdVars, segVars, histVars, TypeOK, OrderInv
<1>7. ASSUME NEW t \in Gxact, AbortTransaction(t) PROVE OrderInv'
    BY <1>7 DEF AbortTransaction, qdVars, segVars, histVars, TypeOK, OrderInv
<1>8. ASSUME NEW t \in Gxact, StartOnePhase(t) PROVE OrderInv'
    BY <1>8 DEF StartOnePhase, qdVars, segVars, histVars, TypeOK, OrderInv
<1>9. ASSUME NEW t \in Gxact, PrepareAndRecord(t) PROVE OrderInv'
    BY <1>9 DEF PrepareAndRecord, qdVars, segVars, histVars, TypeOK, OrderInv
<1>10. ASSUME NEW t \in Gxact, DispatchFails(t) PROVE OrderInv'
    BY <1>10 DEF DispatchFails, qdVars, segVars, histVars, TypeOK, OrderInv
<1>11. ASSUME NEW t \in Gxact, OnePhaseFails(t) PROVE OrderInv'
    BY <1>11 DEF OnePhaseFails, qdVars, segVars, histVars, TypeOK, OrderInv
<1>12. ASSUME NEW t \in Gxact, GatherWaits(t) PROVE OrderInv'
    BY <1>12 DEF GatherWaits, qdVars, segVars, histVars, TypeOK, OrderInv
<1>13. ASSUME NEW t \in Gxact, GxactLockTableWait(t) PROVE OrderInv'
    BY <1>13 DEF GxactLockTableWait, qdVars, segVars, histVars, TypeOK, OrderInv
<1>14. ASSUME NEW t \in Gxact, ProcArrayEndTransaction(t) PROVE OrderInv'
    BY <1>14 DEF ProcArrayEndTransaction, qdVars, segVars, histVars, TypeOK, OrderInv
<1>15. ASSUME NEW t \in Gxact, ReleaseLocks(t) PROVE OrderInv'
    BY <1>15 DEF ReleaseLocks, qdVars, segVars, histVars, TypeOK, OrderInv
<1>16. ASSUME UNCHANGED vars PROVE OrderInv'
    BY <1>16 DEF vars, qdVars, segVars, histVars, qdVars, segVars, histVars, TypeOK, OrderInv
<1> QED
    BY <1>1, <1>2, <1>3, <1>4, <1>5, <1>6, <1>7, <1>8, <1>9, <1>10, <1>11, <1>12, <1>13, <1>14, <1>15, <1>16 DEF Next

\* A reported gxid is where the coordinator will find it.
LEMMA ReportStep == OrderingInv /\ [Next]_vars => ReportInv'
<1> SUFFICES ASSUME OrderingInv, [Next]_vars PROVE ReportInv'
    OBVIOUS
<1> USE DEF OrderingInv
<1>1. ASSUME NEW t \in Gxact, currentDtxActivate(t) PROVE ReportInv'
    BY <1>1 DEF currentDtxActivate, qdVars, segVars, histVars, TypeOK, GxidInv, PhaseInv, BlockInv, ReportInv, Tracked, Ended, Fits, InProgress
<1>2. ASSUME NEW t \in Gxact, NEW s \in Seg, FindBlocker(t, s) PROVE ReportInv'
    BY <1>2 DEF FindBlocker, qdVars, segVars, histVars, TypeOK, GxidInv, PhaseInv, BlockInv, ReportInv, Tracked, Ended, Fits, InProgress
<1>3. ASSUME NEW t \in Gxact, NEW s \in Seg, ReportWait(t, s) PROVE ReportInv'
  <2> DEFINE u == blocker[s][t]
             W == {ToInt(g) : g \in LocalXidGetDistributedXid(s, u)}
             new == [seg |-> s, first |-> u, second |-> t, state |-> xact[s][u]]
  <2>1. u \in Gxact /\ qd[t] = "active" /\ xact[s][u] # "none"
      BY <1>3 DEF ReportWait, BlockInv
  <2>2. (xact[s][u] \in {"running", "committed"} /\ Fits(u)) => gxid[u] \in W
      BY <2>1, LocalXidFacts
  <2>3. qeWaits' = [qeWaits EXCEPT ![s][t] = @ \cup W] /\ reports' = reports \cup {new}
        /\ UNCHANGED <<qdVars, xact>>
      BY <1>3 DEF ReportWait
  <2> HIDE DEF u, W
  <2>4. ASSUME NEW r \in reports
        PROVE  /\ qeWaits[r.seg][r.second] \subseteq qeWaits'[r.seg][r.second]
               /\ r.seg \in Seg /\ r.first \in Gxact /\ r.second \in Gxact
      BY <2>3 DEF TypeOK
  <2>5. ASSUME NEW r \in reports
        PROVE  /\ xact'[r.seg][r.first] # "none"
               /\ qd'[r.second] # "idle"
               /\ (r.state \in {"running", "committed"} /\ r.second \notin failed' /\ Fits(r.first)') =>
                     Tracked(r)'
      BY <2>3, <2>4 DEF qdVars, ReportInv, Tracked, Ended, Fits
  <2>6. ASSUME NEW r, r = new
        PROVE  /\ xact'[r.seg][r.first] # "none"
               /\ qd'[r.second] # "idle"
               /\ (r.state \in {"running", "committed"} /\ r.second \notin failed' /\ Fits(r.first)') =>
                     Tracked(r)'
    <3>1. /\ r.seg = s /\ r.first = u /\ r.second = t /\ r.state = xact[s][u]
        BY <2>6
    <3>2. qeWaits'[s][t] = qeWaits[s][t] \cup W
        BY <2>3 DEF TypeOK
    <3>3. (Fits(r.first)' => Fits(u)) /\ qd'[t] = "active" /\ gxid' = gxid
        BY <2>1, <2>3, <3>1 DEF qdVars, Fits
    <3>4. (xact[s][u] \in {"running", "committed"} /\ Fits(u)) => Tracked(r)'
        BY <2>2, <3>1, <3>2, <3>3 DEF Tracked
    <3> QED
        BY <2>1, <2>3, <3>1, <3>3, <3>4
  <2>7. reports' = reports \cup {new}
      BY <2>3
  <2> QED
      BY <2>5, <2>6, <2>7 DEF ReportInv
<1>4. ASSUME NEW t \in Gxact, NEW s \in Seg, EndWait(t, s) PROVE ReportInv'
    BY <1>4 DEF EndWait, qdVars, segVars, histVars, TypeOK, GxidInv, PhaseInv, BlockInv, ReportInv, Tracked, Ended, Fits, InProgress
<1>5. ASSUME NEW t \in Gxact, NEW s \in Seg, WriteRow(t, s) PROVE ReportInv'
    BY <1>5 DEF WriteRow, qdVars, segVars, histVars, TypeOK, GxidInv, PhaseInv, BlockInv, ReportInv, Tracked, Ended, Fits, InProgress
<1>6. ASSUME NEW t \in Gxact, NEW s \in Seg, CommitOnSegment(t, s) PROVE ReportInv'
    BY <1>6 DEF CommitOnSegment, qdVars, segVars, histVars, TypeOK, GxidInv, PhaseInv, BlockInv, ReportInv, Tracked, Ended, Fits, InProgress
<1>7. ASSUME NEW t \in Gxact, AbortTransaction(t) PROVE ReportInv'
    BY <1>7 DEF AbortTransaction, qdVars, segVars, histVars, TypeOK, GxidInv, PhaseInv, BlockInv, ReportInv, Tracked, Ended, Fits, InProgress
<1>8. ASSUME NEW t \in Gxact, StartOnePhase(t) PROVE ReportInv'
    BY <1>8 DEF StartOnePhase, qdVars, segVars, histVars, TypeOK, GxidInv, PhaseInv, BlockInv, ReportInv, Tracked, Ended, Fits, InProgress
<1>9. ASSUME NEW t \in Gxact, PrepareAndRecord(t) PROVE ReportInv'
    BY <1>9 DEF PrepareAndRecord, qdVars, segVars, histVars, TypeOK, GxidInv, PhaseInv, BlockInv, ReportInv, Tracked, Ended, Fits, InProgress
<1>10. ASSUME NEW t \in Gxact, DispatchFails(t) PROVE ReportInv'
    BY <1>10 DEF DispatchFails, qdVars, segVars, histVars, TypeOK, GxidInv, PhaseInv, BlockInv, ReportInv, Tracked, Ended, Fits, InProgress
<1>11. ASSUME NEW t \in Gxact, OnePhaseFails(t) PROVE ReportInv'
    BY <1>11 DEF OnePhaseFails, qdVars, segVars, histVars, TypeOK, GxidInv, PhaseInv, BlockInv, ReportInv, Tracked, Ended, Fits, InProgress
<1>12. ASSUME NEW t \in Gxact, GatherWaits(t) PROVE ReportInv'
    BY <1>12 DEF GatherWaits, qdVars, segVars, histVars, TypeOK, GxidInv, PhaseInv, BlockInv, ReportInv, Tracked, Ended, Fits, InProgress
<1>13. ASSUME NEW t \in Gxact, GxactLockTableWait(t) PROVE ReportInv'
    BY <1>13 DEF GxactLockTableWait, qdVars, segVars, histVars, TypeOK, GxidInv, PhaseInv, BlockInv, ReportInv, Tracked, Ended, Fits, InProgress
<1>14. ASSUME NEW t \in Gxact, ProcArrayEndTransaction(t) PROVE ReportInv'
    BY <1>14 DEF ProcArrayEndTransaction, qdVars, segVars, histVars, TypeOK, GxidInv, PhaseInv, BlockInv, ReportInv, Tracked, Ended, Fits, InProgress
<1>15. ASSUME NEW t \in Gxact, ReleaseLocks(t) PROVE ReportInv'
    BY <1>15 DEF ReleaseLocks, qdVars, segVars, histVars, TypeOK, GxidInv, PhaseInv, BlockInv, ReportInv, Tracked, Ended, Fits, InProgress
<1>16. ASSUME UNCHANGED vars PROVE ReportInv'
    BY <1>16 DEF vars, qdVars, segVars, histVars, qdVars, segVars, histVars, TypeOK, GxidInv, PhaseInv, BlockInv, ReportInv, Tracked, Ended, Fits, InProgress
<1> QED
    BY <1>1, <1>2, <1>3, <1>4, <1>5, <1>6, <1>7, <1>8, <1>9, <1>10, <1>11, <1>12, <1>13, <1>14, <1>15, <1>16 DEF Next

\* The invariant of the order of ends.
THEOREM OrderingInvariance == Spec => []OrderingInv
<1>1. Init => OrderingInv
    BY OrderAssumption DEF Init, OrderingInv, TypeOK, GxidInv, PhaseInv, BlockInv, OrderInv, ReportInv
<1>2. OrderingInv /\ [Next]_vars => OrderingInv'
    BY TypeStep, GxidStep, PhaseStep, BlockStep, OrderStep, ReportStep DEF OrderingInv
<1> QED
    BY <1>1, <1>2, PTL DEF Spec

(***************************************************************************)
(* Writers end on the coordinator in the order in which they wrote the row *)
(* when the second one waited for the first one, its commit was not        *)
(* retried and the gxid fits in an int.                                    *)
(***************************************************************************)
THEOREM WaitedOrderHolds == Spec => []WaitedOrder
<1>1. OrderingInv => WaitedOrder
  <2> SUFFICES ASSUME OrderingInv, NEW p \in order, p.second \notin failed, Fits(p.first),
                      Waited(p, {"running", "committed"}), Ended(p.second), Committed(p.second)
               PROVE  Ended(p.first)
      BY DEF WaitedOrder, InOrder
  <2>1. p.seg \in Seg /\ p.second \in Gxact /\ xact[p.seg][p.second] # "none"
      BY DEF OrderingInv, TypeOK, OrderInv
  <2>2. xact[p.seg][p.second] = "committed"
      BY <2>1 DEF OrderingInv, PhaseInv, Ended, Committed
  <2>3. PICK r \in reports : /\ r.seg = p.seg /\ r.first = p.first /\ r.second = p.second
                              /\ r.state \in {"running", "committed"}
      BY DEF Waited
  <2>4. Tracked(r)
      BY <2>3 DEF OrderingInv, ReportInv
  <2> QED
      BY <2>2, <2>3, <2>4 DEF Tracked, Ended
<1> QED
    BY <1>1, OrderingInvariance, PTL

\* The variables keep their types.
THEOREM OrderTypeCorrect == Spec => []TypeOK
<1>1. OrderingInv => TypeOK
    BY DEF OrderingInv
<1> QED
    BY <1>1, OrderingInvariance, PTL
=============================================================================
