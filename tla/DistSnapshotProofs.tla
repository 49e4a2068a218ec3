------------------------- MODULE DistSnapshotProofs -------------------------
(***************************************************************************)
(* Proof that a distributed snapshot sees on every segment exactly the     *)
(* transactions whose commit had ended on the coordinator when it was      *)
(* taken, for any number of sessions, segments, snapshots and crashes, and *)
(* apart from the exceptions that SnapshotExact names.                     *)
(***************************************************************************)
EXTENDS DistSnapshot, TLAPS, FiniteSetTheorems, WellFoundedInduction

-----------------------------------------------------------------------------
(* The inductive invariant                                                 *)

\* The coordinator has done with the transaction, its segments perhaps not.
Over(u) == qd[u] \in {"ended", "aborted", "lost"}

\* No segment will ever commit it.
Dead(u) == qd[u] = "aborted" \/ (qd[u] = "lost" /\ AllAre(u, "aborted"))

\* The transactions SnapshotExact is about.
Counts(u) == gxid[u] \notin {0, startGxid}

\* Gxids: who has ended is not after latestCompletedGxid, which is before
\* nextGxid except until the first gxid after start-up is handed out.
GxidInv ==
    /\ latestCompletedGxid <= nextGxid
    /\ latestCompletedGxid = nextGxid => startGxid = nextGxid
    /\ \A u \in Session :
          /\ gxid[u] < nextGxid
          /\ gxid[u] # 0 => qd[u] # "idle"
          /\ Over(u) \/ qd[u] = "recovering" => gxid[u] <= latestCompletedGxid
    /\ \A t, u \in Session : gxid[t] = gxid[u] /\ gxid[t] # 0 => t = u

\* How far a transaction is on a segment, by its progress on the coordinator.
PhaseInv ==
    \A u \in Session :
        /\ \A s \in Seg :
              /\ xact[s][u] # "none" => xid[s][u] # 0 /\ gxid[u] # 0
              /\ xact[s][u] = "none" => xid[s][u] = 0
              /\ qd[u] = "idle" => xact[s][u] = "none"
              /\ qd[u] \in {"open", "aborted"} => xact[s][u] \in {"none", "running", "aborted"}
        /\ qd[u] = "ended" => AllAre(u, "committed")

\* Xids of one segment.
XidInv ==
    \A s \in Seg :
        /\ latestCompletedXid[s] < nextXid[s]
        /\ oldestXmin[s] <= nextXid[s]
        /\ \A u \in Session :
              /\ xid[s][u] < nextXid[s]
              /\ xact[s][u] \in {"committed", "aborted"} => xid[s][u] <= latestCompletedXid[s]
              /\ u \in ignored[s] => xid[s][u] # 0
        /\ \A t, u \in Session : xid[s][t] = xid[s][u] /\ xid[s][t] # 0 => t = u

\* Snapshots are those of transactions that run; while commits wait for
\* recovery there is none.
LiveInv ==
    /\ \A t \in Session :
          /\ ds[t] # NoSnap <=> xminDS[t] # 0
          /\ ds[t] # NoSnap => /\ qd[t] \in {"open", "onePhase", "committing"}
                               /\ xminDS[t] <= latestCompletedGxid + 1
                               /\ ds[t].xmax <= latestCompletedGxid + 1
                               /\ ds[t].xmin <= ds[t].xmax
                               /\ ds[t].xminAll <= ds[t].xmax
                               /\ \A g \in ds[t].inProgress : ds[t].xmin <= g
          /\ \A s \in Seg : ls[s][t] # NoSnap => /\ ds[t] # NoSnap
                                                 /\ ls[s][t].ready \/ qd[t] = "open"
    /\ \A t, u \in Session : qd[u] = "recovering" => ds[t] = NoSnap

\* u is over: the snapshot of t is to see it, or nobody ever will, or it is a
\* one-phase commit that was open when the snapshot was taken.
Settled(t, u) == Over(u) /\ (u \in due[t] \/ u \in unsure[t] \/ Dead(u))

\* What the distributed snapshot says of a gxid.
Visible(t, g) == g < ds[t].xmax /\ g \notin ds[t].inProgress

\* What a distributed snapshot knows.
KnownInv ==
    \A t, u \in Session :
        ds[t] # NoSnap =>
            /\ u \in due[t] => Over(u) /\ AllAre(u, "committed") /\ Visible(t, gxid[u])
            /\ Counts(u) /\ gxid[u] < xminDS[t] => Settled(t, u)
            /\ Counts(u) /\ u # t /\ Visible(t, gxid[u]) => Settled(t, u)

\* Below the xminAll of one snapshot everything is settled for all snapshots.
HorizonInv ==
    \A r, t, u \in Session :
        ds[r] # NoSnap /\ ds[t] # NoSnap /\ Counts(u) /\ gxid[u] < ds[t].xminAll => Settled(r, u)

\* The local snapshot of a QE was taken after the distributed one.
LocalInv ==
    \A s \in Seg, t \in Session :
        ls[s][t] # NoSnap =>
            /\ ls[s][t].globalxmin <= ls[s][t].xmin
            /\ ls[s][t].xmin <= ls[s][t].xmax
            /\ ls[s][t].xmax <= latestCompletedXid[s] + 1
            /\ \A u \in Session :
                  /\ u \in due[t] => xid[s][u] < ls[s][t].xmax /\ xid[s][u] \notin ls[s][t].xip
                  /\ xid[s][u] # 0 /\ xid[s][u] < ls[s][t].xmin => ~ InProcArray(s, u)

\* The distributed log is not asked any more: all snapshots agree on u.
Forgotten(s, u) == xid[s][u] # 0 /\ (xid[s][u] < oldestXmin[s] \/ u \in ignored[s])

Agreed(u) ==
    /\ Over(u) \/ qd[u] = "recovering"
    /\ \A t \in Session : ds[t] # NoSnap => Settled(t, u)

ForgottenInv ==
    \A s \in Seg, u \in Session :
        Forgotten(s, u) /\ Counts(u) /\ xact[s][u] # "aborted" => Agreed(u)

SnapshotInv ==
    /\ TypeOK
    /\ GxidInv
    /\ PhaseInv
    /\ XidInv
    /\ LiveInv
    /\ KnownInv
    /\ HorizonInv
    /\ LocalInv
    /\ ForgottenInv

-----------------------------------------------------------------------------
(* Operators                                                               *)

\* A non-empty set of naturals has a least element.
LEMMA MinFact ==
    ASSUME NEW S \in SUBSET Nat, S # {}
    PROVE  Min(S) \in S /\ \A y \in S : Min(S) <= y
<1> DEFINE R == {ss \in Nat \X Nat : ss[1] < ss[2]}
<1>1. IsWellFoundedOn(R, Nat)
    BY NatLessThanWellFounded DEF OpToRel
<1> HIDE DEF R
<1>2. PICK x \in S : \A y \in S : ~ (<<y, x>> \in R)
    BY <1>1, WFMin
<1>3. ASSUME NEW y \in S PROVE x <= y
  <2>1. x \in Nat /\ y \in Nat
      OBVIOUS
  <2>2. ~ (<<y, x>> \in R)
      BY <1>2
  <2> QED
      BY <2>1, <2>2 DEF R
<1> QED
    BY <1>3 DEF Min

\* The least element of a set and a default.
LEMMA MinOfFact ==
    ASSUME NEW S \in SUBSET Nat, NEW d \in Nat
    PROVE  /\ MinOf(S, d) \in Nat
           /\ MinOf(S, d) \in S \cup {d}
           /\ MinOf(S, d) <= d
           /\ \A y \in S : MinOf(S, d) <= y
<1>1. S \cup {d} \in SUBSET Nat /\ S \cup {d} # {}
    OBVIOUS
<1>2. Min(S \cup {d}) \in S \cup {d} /\ \A y \in S \cup {d} : Min(S \cup {d}) <= y
    BY <1>1, MinFact
<1> QED
    BY <1>1, <1>2 DEF MinOf

\* A non-empty set of naturals with a bound has a greatest element.
LEMMA MaxFact ==
    ASSUME NEW N \in Nat, NEW S \in SUBSET (0 .. N), S # {}
    PROVE  Max(S) \in S /\ \A y \in S : y <= Max(S)
<1> DEFINE T == {N - x : x \in S}
<1>1. \A x \in S : N - x \in Nat
    OBVIOUS
<1>2. T \in SUBSET Nat /\ T # {}
  <2>1. PICK x \in S : TRUE
      OBVIOUS
  <2>2. N - x \in T
      OBVIOUS
  <2> QED
      BY <1>1, <2>2
<1>3. Min(T) \in T /\ \A y \in T : Min(T) <= y
    BY <1>2, MinFact
<1>4. PICK x \in S : Min(T) = N - x
    BY <1>3
<1>5. ASSUME NEW y \in S PROVE x >= y
  <2>1. N - y \in T
      OBVIOUS
  <2>2. N - x <= N - y
      BY <1>3, <1>4, <2>1
  <2>3. x \in Int /\ y \in Int
      OBVIOUS
  <2> QED
      BY <2>2, <2>3
<1> QED
    BY <1>5 DEF Max

\* The larger of two numbers.
LEMMA MaxPair ==
    ASSUME NEW a \in Nat, NEW b \in Nat
    PROVE  Max({a, b}) = IF a >= b THEN a ELSE b
<1>1. Max({a, b}) \in {a, b} /\ \A y \in {a, b} : y <= Max({a, b})
  <2> DEFINE N == a + b
  <2>1. N \in Nat /\ {a, b} \in SUBSET (0 .. N) /\ {a, b} # {}
      OBVIOUS
  <2> HIDE DEF N
  <2> QED
      BY <2>1, MaxFact
<1> QED
    BY <1>1

\* The distributed snapshot that is made: below its xmin, and below its
\* xminAll, nothing runs.
LEMMA CreateFacts ==
    ASSUME TypeOK, NEW t \in Session
    PROVE  LET d == CreateDistributedSnapshot(t) IN
           /\ d \in DistributedSnapshot
           /\ d.xmax = latestCompletedGxid + 1
           /\ d.inProgress = {g \in LiveGxids : g < d.xmax} \ {gxid[t]}
           /\ d.xmin # 0 /\ d.xmin <= d.xmax /\ d.xminAll <= d.xmax
           /\ \A g \in LiveGxids : g < d.xmax => d.xmin <= g /\ d.xminAll <= g
           /\ \A u \in Session : xminDS[u] # 0 => d.xminAll <= xminDS[u]
<1> DEFINE xmax == latestCompletedGxid + 1
           running == {g \in LiveGxids : g < xmax}
           published == {xminDS[u] : u \in Session} \ {0}
           lowest == MinOf(running, xmax)
           lowestAll == MinOf(published \cup running, xmax)
<1>1. xmax \in Nat /\ xmax # 0
    BY DEF TypeOK
<1>2. running \in SUBSET Nat /\ 0 \notin running
    BY DEF TypeOK, LiveGxids
<1>3. published \in SUBSET Nat
    BY DEF TypeOK
<1>4. \A u \in Session : xminDS[u] # 0 => xminDS[u] \in published
    OBVIOUS
<1>5. CreateDistributedSnapshot(t) =
        [xmin |-> lowest, xmax |-> xmax, inProgress |-> running \ {gxid[t]}, xminAll |-> lowestAll]
    BY DEF CreateDistributedSnapshot
<1>6. \A g \in LiveGxids : g < xmax => g \in running
    OBVIOUS
<1>7. running \ {gxid[t]} = {g \in LiveGxids : g < xmax} \ {gxid[t]}
    OBVIOUS
<1> HIDE DEF running, published, xmax
<1>8. lowest \in Nat /\ lowest \in running \cup {xmax} /\ lowest <= xmax /\ \A y \in running : lowest <= y
    BY <1>1, <1>2, MinOfFact
<1>9. lowestAll \in Nat /\ lowestAll <= xmax /\ \A y \in published \cup running : lowestAll <= y
    BY <1>1, <1>2, <1>3, MinOfFact
<1> HIDE DEF lowest, lowestAll
<1> DEFINE d == [xmin |-> lowest, xmax |-> xmax, inProgress |-> running \ {gxid[t]},
                 xminAll |-> lowestAll]
<1>10. /\ d \in DistributedSnapshot /\ d.xmin = lowest /\ d.xmax = xmax
       /\ d.inProgress = running \ {gxid[t]} /\ d.xminAll = lowestAll
    BY <1>1, <1>2, <1>8, <1>9 DEF DistributedSnapshot
<1>11. lowest # 0
    BY <1>1, <1>2, <1>8
<1>12. CreateDistributedSnapshot(t) = d
    BY <1>5
<1> HIDE DEF d
<1>13. xmax = latestCompletedGxid + 1
    BY DEF xmax
<1> QED
    BY <1>4, <1>6, <1>7, <1>8, <1>9, <1>10, <1>11, <1>12, <1>13

-----------------------------------------------------------------------------
(* Steps                                                                   *)

\* The QD starts to commit, in one phase or in two.
Begin(t) == \E state \in {"onePhase", "committing"} : StartCommit(t, state)

\* The QD is done with a transaction: the commit is over, or given up, or the
\* transaction is rolled back, on request or by the ERROR at the end of a snapshot.
Finish(t, state) ==
    /\ \/ state = "ended" /\ qd[t] \in {"onePhase", "committing"} /\ AllAre(t, "committed")
       \/ state = "lost" /\ qd[t] = "onePhase"
       \/ state = "aborted" /\ qd[t] = "open"
    /\ EndTransaction(t, state)
    /\ UNCHANGED <<nextGxid, startGxid, gxid, due, unsure, snaps, crashes, nextXid, latestCompletedXid,
                   xact, xid, ignored>>

\* A snapshot that is finished without that ERROR.
MakeReady(t, s) ==
    /\ ls[s][t] # NoSnap
    /\ ls' = [ls EXCEPT ![s][t].ready = TRUE]
    /\ UNCHANGED <<qdVars, nextXid, latestCompletedXid, xact, xid, xmin, ignored>>

\* A part commits or aborts on a segment.
Move(t, s) ==
    \/ SetCommittedTree(t, s)
    \/ CommitTree(t, s)
    \/ ProcArrayRemove(t, s)
    \/ AbortOnSegment(t, s)

\* What a step is, apart from what it does to oldestXmin.
LEMMA StepCases ==
    ASSUME LiveInv, Next
    PROVE  \/ CrashAndStartup
           \/ \E t \in Session :
                 \/ currentDtxActivate(t)
                 \/ TakeSnapshot(t)
                 \/ Begin(t)
                 \/ RecoverCommitted(t)
                 \/ \E state \in {"ended", "lost", "aborted"} : Finish(t, state)
                 \/ \E s \in Seg :
                       \/ AssignXid(t, s)
                       \/ Move(t, s)
                       \/ GetSnapshotData(t, s)
                       \/ MakeReady(t, s)
                       \/ \E u \in Session : SetIgnoreHint(t, s, u)
<1>1. ASSUME NEW t \in Session, EndAbort(t) PROVE Finish(t, "aborted")
    BY <1>1 DEF EndAbort, Finish
<1>2. ASSUME NEW t \in Session, NEW s \in Seg, FinishSnapshot(t, s) PROVE Finish(t, "aborted") \/ MakeReady(t, s)
  <2>1. qd[t] = "open" /\ ls[s][t] # NoSnap
      BY <1>2 DEF FinishSnapshot, LiveInv
  <2> QED
      BY <1>2, <2>1 DEF FinishSnapshot, Finish, MakeReady, qdVars
<1>3. Writer \subseteq Session /\ Reader \subseteq Session
    BY DEF Session
<1>4. CASE \E t \in Reader : \/ TakeSnapshot(t)
                             \/ \E s \in Seg : \/ GetSnapshotData(t, s)
                                               \/ FinishSnapshot(t, s)
                                               \/ \E u \in Writer : SetIgnoreHint(t, s, u)
    BY <1>2, <1>3, <1>4
<1>5. CASE \E t \in Session : EndAbort(t)
    BY <1>1, <1>5
<1>6. ASSUME NEW t \in Session, EndCommit(t) PROVE Finish(t, "ended")
    BY <1>6 DEF EndCommit, Finish
<1>7. ASSUME NEW t \in Session, FailOnePhase(t) PROVE Finish(t, "lost")
    BY <1>7 DEF FailOnePhase, Finish
<1>8. ASSUME NEW t \in Session, doNotifyingOnePhaseCommit(t) \/ RecordCommit(t) PROVE Begin(t)
    BY <1>8 DEF doNotifyingOnePhaseCommit, RecordCommit, Begin
<1>9. CASE \E t \in Writer :
                \/ currentDtxActivate(t)
                \/ doNotifyingOnePhaseCommit(t)
                \/ RecordCommit(t)
                \/ EndCommit(t)
                \/ FailOnePhase(t)
                \/ RecoverCommitted(t)
                \/ \E s \in Seg : \/ AssignXid(t, s)
                                  \/ AbortOnSegment(t, s)
                                  \/ SetCommittedTree(t, s)
                                  \/ CommitTree(t, s)
                                  \/ ProcArrayRemove(t, s)
    BY <1>3, <1>6, <1>7, <1>8, <1>9 DEF Move
<1> QED
    BY <1>4, <1>5, <1>9 DEF Next

\* Only the end of a snapshot moves oldestXmin.
LEMMA OldestCases ==
    ASSUME Next
    PROVE  \/ UNCHANGED oldestXmin
           \/ \E t \in Session, s \in Seg : FinishSnapshot(t, s)
<1>1. CrashAndStartup => UNCHANGED oldestXmin
    BY DEF CrashAndStartup
<1>2. ASSUME NEW t \in Session
      PROVE  \/ currentDtxActivate(t) \/ doNotifyingOnePhaseCommit(t) \/ RecordCommit(t) \/ EndCommit(t)
             \/ FailOnePhase(t) \/ RecoverCommitted(t) \/ EndAbort(t) \/ TakeSnapshot(t)
             => UNCHANGED oldestXmin
    BY DEF currentDtxActivate, doNotifyingOnePhaseCommit, RecordCommit, StartCommit, EndCommit, FailOnePhase,
           RecoverCommitted, EndAbort, TakeSnapshot, SnapshotFor, segVars
<1>3. ASSUME NEW t \in Session, NEW s \in Seg
      PROVE  \/ AssignXid(t, s) \/ SetCommittedTree(t, s) \/ CommitTree(t, s) \/ ProcArrayRemove(t, s)
             \/ AbortOnSegment(t, s) \/ GetSnapshotData(t, s) \/ \E u \in Writer : SetIgnoreHint(t, s, u)
             => UNCHANGED oldestXmin
    BY DEF AssignXid, SetCommittedTree, CommitTree, ProcArrayRemove, CommitStep, AbortOnSegment,
           GetSnapshotData, SetIgnoreHint
<1>4. Writer \subseteq Session /\ Reader \subseteq Session
    BY DEF Session
<1>5. SUFFICES ASSUME ~ UNCHANGED oldestXmin PROVE \E t \in Session, s \in Seg : FinishSnapshot(t, s)
    OBVIOUS
<1>6. \E t \in Reader, s \in Seg : FinishSnapshot(t, s)
    BY <1>1, <1>2, <1>3, <1>4, <1>5 DEF Next
<1> QED
    BY <1>4, <1>6

\* How a commit goes on on a segment, or how it is aborted there.
LEMMA MoveFacts ==
    ASSUME TypeOK, XidInv, NEW t \in Session, NEW s \in Seg, Move(t, s)
    PROVE  /\ qd[t] \notin {"idle", "ended"}
           /\ xact[s][t] \in {"running", "distlog", "clog"}
           /\ \E to \in {"distlog", "clog", "committed", "aborted"} :
                 /\ xact' = [xact EXCEPT ![s][t] = to]
                 /\ to \in {"committed", "aborted"} => xid[s][t] <= latestCompletedXid'[s]
                 /\ qd[t] \in {"open", "aborted"} => to = "aborted"
           /\ latestCompletedXid' \in [Seg -> Nat]
           /\ \A r \in Seg : /\ latestCompletedXid[r] <= latestCompletedXid'[r]
                             /\ latestCompletedXid'[r] < nextXid[r]
           /\ UNCHANGED <<qdVars, nextXid, xid, xmin, ls, ignored>>
<1>t. /\ latestCompletedXid \in [Seg -> Nat] /\ nextXid \in [Seg -> Nat] /\ xid[s][t] \in Nat
      /\ xid[s][t] < nextXid[s]
      /\ \A r \in Seg : latestCompletedXid[r] < nextXid[r]
    BY DEF TypeOK, XidInv
<1>1. CASE SetCommittedTree(t, s)
    BY <1>t, <1>1 DEF SetCommittedTree, CommitStep
<1>2. CASE CommitTree(t, s)
    BY <1>t, <1>2 DEF CommitTree, CommitStep
<1>3. CASE ProcArrayRemove(t, s) \/ AbortOnSegment(t, s)
  <2> DEFINE m == Max({latestCompletedXid[s], xid[s][t]})
  <2>1. m = IF latestCompletedXid[s] >= xid[s][t] THEN latestCompletedXid[s] ELSE xid[s][t]
      BY <1>t, MaxPair
  <2>2. /\ latestCompletedXid' = [latestCompletedXid EXCEPT ![s] = m]
        /\ qd[t] \notin {"idle", "ended"}
        /\ xact[s][t] \in {"running", "clog"}
        /\ \E to \in {"committed", "aborted"} :
              /\ xact' = [xact EXCEPT ![s][t] = to]
              /\ qd[t] \in {"open", "aborted"} => to = "aborted"
        /\ UNCHANGED <<qdVars, nextXid, xid, xmin, ls, ignored>>
      BY <1>3 DEF ProcArrayRemove, CommitStep, AbortOnSegment
  <2> HIDE DEF m
  <2>3. m \in Nat /\ m < nextXid[s] /\ latestCompletedXid[s] <= m /\ xid[s][t] <= m
      BY <1>t, <2>1
  <2>4. \A r \in Seg : latestCompletedXid'[r] = IF r = s THEN m ELSE latestCompletedXid[r]
      BY <1>t, <2>2
  <2>5. latestCompletedXid' \in [Seg -> Nat]
      BY <1>t, <2>2, <2>3
  <2>6. \A r \in Seg : latestCompletedXid[r] <= latestCompletedXid[r]
      BY <1>t
  <2> QED
      BY <1>t, <2>2, <2>3, <2>4, <2>5, <2>6
<1> QED
    BY <1>1, <1>2, <1>3 DEF Move

\* latestCompletedGxid after the end of a transaction.
LEMMA EndGxactFacts ==
    ASSUME TypeOK, NEW t \in Session, ProcArrayEndGxact(t)
    PROVE  /\ latestCompletedGxid' \in Nat
           /\ latestCompletedGxid' \in {latestCompletedGxid, gxid[t]}
           /\ latestCompletedGxid <= latestCompletedGxid'
           /\ gxid[t] <= latestCompletedGxid'
<1>1. latestCompletedGxid \in Nat /\ gxid[t] \in Nat
    BY DEF TypeOK
<1> QED
    BY <1>1, MaxPair DEF ProcArrayEndGxact

\* The local snapshot of a QE: nothing below its xmin is in the ProcArray.
LEMMA LocalSnapshotFacts ==
    ASSUME TypeOK, XidInv, NEW t \in Session, NEW s \in Seg, GetSnapshotData(t, s)
    PROVE  \E l \in LocalSnapshot :
              /\ ls' = [ls EXCEPT ![s][t] = l]
              /\ xmin' = [xmin EXCEPT ![s][t] = IF @ = 0 THEN l.xmin ELSE @]
              /\ l.xmax = latestCompletedXid[s] + 1
              /\ l.xmin <= l.xmax
              /\ l.globalxmin <= l.xmin
              /\ \A u \in Session : xid[s][u] \in l.xip => \E v \in Session : InProcArray(s, v) /\ xid[s][v] = xid[s][u]
              /\ \A u \in Session : xid[s][u] # 0 /\ xid[s][u] < l.xmin => ~ InProcArray(s, u)
<1> DEFINE running == {u \in Session : InProcArray(s, u)}
           xmax == latestCompletedXid[s] + 1
           own == {xid[s][t]} \ {0}
           seen == {xid[s][u] : u \in running \ {t}} \cap (0 .. xmax - 1)
           lowest == MinOf(seen \cup own, xmax)
           published == {xmin[s][u] : u \in running} \ {0}
           global == MinOf(published, lowest)
           l == [xmin |-> lowest, xmax |-> xmax, xip |-> seen, globalxmin |-> global, ready |-> FALSE]
<1>1. /\ ls' = [ls EXCEPT ![s][t] = l]
      /\ xmin' = [xmin EXCEPT ![s][t] = IF @ = 0 THEN lowest ELSE @]
    BY DEF GetSnapshotData
<1>2. xmax \in Nat
    BY DEF TypeOK
<1>3. \A u \in Session : xid[s][u] \in Nat /\ xmin[s][u] \in Nat
    BY DEF TypeOK
<1>4. seen \in SUBSET Nat /\ own \in SUBSET Nat /\ seen \cup own \in SUBSET Nat
    BY <1>3
<1>5. published \in SUBSET Nat
    BY <1>3
<1>6. lowest \in Nat /\ lowest <= xmax /\ \A y \in seen \cup own : lowest <= y
  <2> HIDE DEF seen, own, xmax
  <2> QED
      BY <1>2, <1>4, MinOfFact
<1>7. global \in Nat /\ global <= lowest
  <2> HIDE DEF published, lowest
  <2> QED
      BY <1>5, <1>6, MinOfFact
<1>8. ASSUME NEW u \in Session, InProcArray(s, u), xid[s][u] # 0, xid[s][u] < lowest
      PROVE  FALSE
  <2>1. xid[s][u] \in 0 .. xmax - 1
      BY <1>2, <1>3, <1>6, <1>8
  <2>2. CASE u = t
    <3>1. xid[s][u] \in own
        BY <1>8, <2>2
    <3> HIDE DEF own, seen, lowest
    <3> QED
        BY <1>3, <1>6, <1>8, <3>1
  <2>3. CASE u # t
    <3>1. xid[s][u] \in seen
        BY <1>8, <2>1, <2>3
    <3> HIDE DEF own, seen, lowest
    <3> QED
        BY <1>3, <1>6, <1>8, <3>1
  <2> QED
      BY <2>2, <2>3
<1>9. \A u \in Session : xid[s][u] \in seen => \E v \in Session : InProcArray(s, v) /\ xid[s][v] = xid[s][u]
    OBVIOUS
<1> HIDE DEF running, xmax, own, seen, lowest, published, global
<1>10. /\ l \in LocalSnapshot /\ l.xmax = xmax /\ l.xmin = lowest /\ l.xip = seen /\ l.globalxmin = global
    BY <1>2, <1>4, <1>6, <1>7 DEF LocalSnapshot
<1> HIDE DEF l
<1>11. xmax = latestCompletedXid[s] + 1
    BY DEF xmax
<1> QED
    BY <1>1, <1>6, <1>7, <1>8, <1>9, <1>10, <1>11

\* How far oldestXmin moves: past transactions that ended before the local
\* snapshot, and whose gxids are below the xminAll of the distributed one.
LEMMA AdvanceFacts ==
    ASSUME SnapshotInv, NEW t \in Session, NEW s \in Seg, FinishSnapshot(t, s)
    PROVE  \E o \in Nat :
              /\ oldestXmin' = [oldestXmin EXCEPT ![s] = o]
              /\ o <= nextXid[s]
              /\ \A u \in Session : xid[s][u] < o =>
                    \/ xid[s][u] < oldestXmin[s]
                    \/ /\ xid[s][u] < ls[s][t].xmin
                       /\ DistributedLogEntry(s, u) < ds[t].xminAll
<1> DEFINE xminAll == ds[t].xminAll
           ahead == {x \in Stop(s, xminAll) : x >= oldestXmin[s]}
           m == MinOf(ahead, ls[s][t].globalxmin)
           o == Max({oldestXmin[s], m})
<1>1. oldestXmin' = [oldestXmin EXCEPT ![s] = o]
    BY DEF FinishSnapshot, AdvanceOldestXmin
<1>2. ls[s][t] # NoSnap /\ ds[t] # NoSnap
    BY DEF FinishSnapshot, SnapshotInv, LiveInv
<1>3. ls[s][t] \in LocalSnapshot /\ ds[t] \in DistributedSnapshot
    BY <1>2 DEF SnapshotInv, TypeOK
<1>4. /\ ls[s][t].globalxmin \in Nat /\ ls[s][t].xmin \in Nat /\ ls[s][t].xmax \in Nat
      /\ xminAll \in Nat
    BY <1>3 DEF LocalSnapshot, DistributedSnapshot
<1>5. /\ ls[s][t].globalxmin <= ls[s][t].xmin /\ ls[s][t].xmin <= ls[s][t].xmax
      /\ ls[s][t].xmax <= latestCompletedXid[s] + 1
    BY <1>2 DEF SnapshotInv, LocalInv
<1>6. /\ latestCompletedXid[s] \in Nat /\ nextXid[s] \in Nat /\ oldestXmin[s] \in Nat
      /\ latestCompletedXid[s] < nextXid[s] /\ oldestXmin[s] <= nextXid[s]
      /\ \A u \in Session : xid[s][u] \in Nat /\ DistributedLogEntry(s, u) \in Nat
    BY DEF SnapshotInv, TypeOK, XidInv, DistributedLogEntry
<1>7. ahead \in SUBSET Nat
    BY <1>6 DEF Stop
<1>8. \A u \in Session : DistributedLogEntry(s, u) >= xminAll /\ xid[s][u] >= oldestXmin[s] => xid[s][u] \in ahead
    BY DEF Stop
<1> HIDE DEF ahead, xminAll
<1>9. m \in Nat /\ m <= ls[s][t].globalxmin /\ \A y \in ahead : m <= y
    BY <1>4, <1>7, MinOfFact
<1> HIDE DEF m
<1>10. o = IF oldestXmin[s] >= m THEN oldestXmin[s] ELSE m
    BY <1>6, <1>9, MaxPair
<1> HIDE DEF o
<1>11. o \in Nat /\ o <= nextXid[s]
    BY <1>4, <1>5, <1>6, <1>9, <1>10
<1>12. ASSUME NEW u \in Session, xid[s][u] < o, ~ (xid[s][u] < oldestXmin[s])
       PROVE  xid[s][u] < ls[s][t].xmin /\ DistributedLogEntry(s, u) < xminAll
  <2>1. xid[s][u] \in Nat /\ xid[s][u] < m
      BY <1>6, <1>9, <1>10, <1>11, <1>12
  <2>2. xid[s][u] < ls[s][t].xmin
      BY <1>4, <1>5, <1>9, <2>1
  <2>3. xid[s][u] \notin ahead
      BY <1>9, <2>1
  <2>4. ~ (DistributedLogEntry(s, u) >= xminAll)
      BY <1>6, <1>8, <1>12, <2>1, <2>3
  <2> QED
      BY <1>4, <1>6, <2>2, <2>4
<1> QED
    BY <1>1, <1>11, <1>12 DEF xminAll

-----------------------------------------------------------------------------
(* Every part of the invariant is kept                                     *)

\* Sessions drop their snapshots.
LEMMA DropFacts ==
    ASSUME TypeOK, NEW T \in SUBSET Session, DropSnapshots(T)
    PROVE  /\ ds' \in [Session -> DistributedSnapshot \cup {NoSnap}]
           /\ xminDS' \in [Session -> Nat]
           /\ ls' \in [Seg -> [Session -> LocalSnapshot \cup {NoSnap}]]
           /\ xmin' \in [Seg -> [Session -> Nat]]
           /\ \A t \in Session : /\ t \in T => ds'[t] = NoSnap /\ xminDS'[t] = 0
                                 /\ t \notin T => ds'[t] = ds[t] /\ xminDS'[t] = xminDS[t]
           /\ \A s \in Seg, t \in Session : /\ t \in T => ls'[s][t] = NoSnap
                                            /\ t \notin T => ls'[s][t] = ls[s][t]
<1>1. /\ ds \in [Session -> DistributedSnapshot \cup {NoSnap}]
      /\ xminDS \in [Session -> Nat]
      /\ ls \in [Seg -> [Session -> LocalSnapshot \cup {NoSnap}]]
      /\ xmin \in [Seg -> [Session -> Nat]]
    BY DEF TypeOK
<1>2. /\ ds' \in [Session -> DistributedSnapshot \cup {NoSnap}]
      /\ xminDS' \in [Session -> Nat]
    BY <1>1 DEF DropSnapshots
<1>3. ls' \in [Seg -> [Session -> LocalSnapshot \cup {NoSnap}]]
    BY <1>1 DEF DropSnapshots
<1>4. xmin' \in [Seg -> [Session -> Nat]]
    BY <1>1 DEF DropSnapshots
<1> QED
    BY <1>1, <1>2, <1>3, <1>4 DEF DropSnapshots

\* oldestXmin stays a number, not after nextXid.
LEMMA OldestStep ==
    ASSUME SnapshotInv, Next
    PROVE  /\ oldestXmin' \in [Seg -> Nat]
           /\ \A s \in Seg : oldestXmin'[s] <= nextXid[s]
<1>1. /\ oldestXmin \in [Seg -> Nat]
      /\ \A s \in Seg : oldestXmin[s] <= nextXid[s]
    BY DEF SnapshotInv, TypeOK, XidInv
<1>2. ASSUME NEW t \in Session, NEW s \in Seg, FinishSnapshot(t, s)
      PROVE  /\ oldestXmin' \in [Seg -> Nat]
             /\ \A r \in Seg : oldestXmin'[r] <= nextXid[r]
  <2>1. PICK o \in Nat : oldestXmin' = [oldestXmin EXCEPT ![s] = o] /\ o <= nextXid[s]
      BY <1>2, AdvanceFacts
  <2> QED
      BY <1>1, <2>1
<1> QED
    BY <1>1, <1>2, OldestCases

\* Every step keeps the types.
LEMMA TypeStep ==
    ASSUME SnapshotInv, Next
    PROVE  TypeOK'
<1>t. TypeOK /\ XidInv /\ LiveInv /\ PhaseInv
    BY DEF SnapshotInv
<1>o. oldestXmin' \in [Seg -> Nat]
    BY OldestStep
<1> DEFINE QdType ==
              /\ nextGxid \in Nat /\ latestCompletedGxid \in Nat /\ startGxid \in Nat
              /\ qd \in [Session -> QdState]
              /\ gxid \in [Session -> Nat]
              /\ xminDS \in [Session -> Nat]
              /\ ds \in [Session -> DistributedSnapshot \cup {NoSnap}]
              /\ due \in [Session -> SUBSET Session]
              /\ unsure \in [Session -> SUBSET Session]
              /\ snaps \in 0 .. MaxSnap
              /\ crashes \in 0 .. MaxCrash
           SegType ==
              /\ nextXid \in [Seg -> Nat] /\ latestCompletedXid \in [Seg -> Nat]
              /\ xact \in [Seg -> [Session -> XactState]]
              /\ xid \in [Seg -> [Session -> Nat]]
              /\ xmin \in [Seg -> [Session -> Nat]]
              /\ ls \in [Seg -> [Session -> LocalSnapshot \cup {NoSnap}]]
              /\ ignored \in [Seg -> SUBSET Session]
              /\ \A s \in Seg : latestCompletedXid[s] < nextXid[s]
<1>u. QdType /\ SegType
    BY <1>t DEF TypeOK
<1>1. SUFFICES QdType' /\ SegType'
    BY <1>o DEF TypeOK
<1>q. UNCHANGED qdVars => QdType'
    BY <1>u DEF qdVars
<1>s. UNCHANGED segVars => SegType'
    BY <1>u DEF segVars
<1>w. /\ {"open", "onePhase", "committing", "recovering", "ended", "aborted", "lost"} \subseteq QdState
      /\ {"running", "distlog", "clog", "committed", "aborted"} \subseteq XactState
    BY DEF QdState, XactState
<1>2. CASE CrashAndStartup
  <2> DEFINE live == {t \in Session : qd[t] \in {"open", "onePhase", "committing", "recovering"}}
  <2>1. /\ DropSnapshots(live) /\ live \in SUBSET Session
        /\ crashes < MaxCrash /\ crashes' = crashes + 1
        /\ startGxid' = nextGxid /\ latestCompletedGxid' = nextGxid
        /\ qd' = [t \in Session |-> CASE qd[t] = "open" -> "aborted"
                                      [] qd[t] = "onePhase" -> "lost"
                                      [] qd[t] = "committing" -> "recovering"
                                      [] OTHER -> qd[t]]
        /\ UNCHANGED <<nextGxid, gxid, due, unsure, snaps, nextXid, latestCompletedXid, xact, xid,
                       oldestXmin, ignored>>
      BY <1>2 DEF CrashAndStartup
  <2> HIDE DEF live
  <2>2. QdType'
    <3>1. ds' \in [Session -> DistributedSnapshot \cup {NoSnap}] /\ xminDS' \in [Session -> Nat]
        BY <1>t, <2>1, DropFacts
    <3>2. crashes' \in 0 .. MaxCrash
        BY <1>u, <2>1, SnapshotAssumption
    <3>3. qd' \in [Session -> QdState]
        BY <1>u, <1>w, <2>1
    <3> QED
        BY <1>u, <2>1, <3>1, <3>2, <3>3
  <2>3. SegType'
    <3>1. ls' \in [Seg -> [Session -> LocalSnapshot \cup {NoSnap}]] /\ xmin' \in [Seg -> [Session -> Nat]]
        BY <1>t, <2>1, DropFacts
    <3> QED
        BY <1>u, <2>1, <3>1
  <2> QED
      BY <2>2, <2>3
<1>3. ASSUME NEW t \in Session, currentDtxActivate(t) PROVE QdType' /\ SegType'
    BY <1>u, <1>w, <1>3, <1>s DEF currentDtxActivate
<1>4. ASSUME NEW t \in Session, TakeSnapshot(t) PROVE QdType' /\ SegType'
  <2>1. CreateDistributedSnapshot(t) \in DistributedSnapshot
      BY <1>t, CreateFacts
  <2> DEFINE d == CreateDistributedSnapshot(t)
  <2>2. /\ snaps < MaxSnap /\ qd' = [qd EXCEPT ![t] = "open"]
        /\ ds' = [ds EXCEPT ![t] = d]
        /\ xminDS' = [xminDS EXCEPT ![t] = IF @ = 0 THEN d.xmin ELSE @]
        /\ ls' = [s \in Seg |-> [ls[s] EXCEPT ![t] = NoSnap]]
        /\ due' = [due EXCEPT ![t] = EndedCommits]
        /\ unsure' = [unsure EXCEPT ![t] = Unresolved]
        /\ snaps' = snaps + 1
        /\ UNCHANGED <<nextGxid, latestCompletedGxid, startGxid, gxid, crashes, nextXid,
                       latestCompletedXid, xact, xid, xmin, oldestXmin, ignored>>
      BY <1>4 DEF TakeSnapshot, SnapshotFor
  <2> HIDE DEF d
  <2>3. d \in DistributedSnapshot /\ d.xmin \in Nat
      BY <2>1 DEF d, DistributedSnapshot
  <2>4. EndedCommits \in SUBSET Session /\ Unresolved \in SUBSET Session
      BY DEF EndedCommits, Unresolved
  <2>5. snaps' \in 0 .. MaxSnap
      BY <1>u, <2>2, SnapshotAssumption
  <2>6. ls' \in [Seg -> [Session -> LocalSnapshot \cup {NoSnap}]]
      BY <1>u, <2>2
  <2>7. QdType'
      BY <1>u, <1>w, <2>2, <2>3, <2>4, <2>5
  <2>8. SegType'
      BY <1>u, <2>2, <2>6
  <2> QED
      BY <2>7, <2>8
<1>5. ASSUME NEW t \in Session, Begin(t) PROVE QdType' /\ SegType'
    BY <1>u, <1>w, <1>5, <1>s DEF Begin, StartCommit
<1>6. ASSUME NEW t \in Session, NEW state \in {"ended", "lost", "aborted"}, Finish(t, state)
      PROVE  QdType' /\ SegType'
  <2>1. DropSnapshots({t}) /\ ProcArrayEndGxact(t) /\ {t} \in SUBSET Session
      BY <1>6 DEF Finish, EndTransaction
  <2>2. latestCompletedGxid' \in Nat
      BY <1>t, <2>1, EndGxactFacts
  <2>3. /\ ds' \in [Session -> DistributedSnapshot \cup {NoSnap}]
        /\ xminDS' \in [Session -> Nat]
        /\ ls' \in [Seg -> [Session -> LocalSnapshot \cup {NoSnap}]]
        /\ xmin' \in [Seg -> [Session -> Nat]]
      BY <1>t, <2>1, DropFacts
  <2>4. /\ qd' = [qd EXCEPT ![t] = state]
        /\ UNCHANGED <<nextGxid, startGxid, gxid, due, unsure, snaps, crashes, nextXid, latestCompletedXid,
                       xact, xid, ignored>>
      BY <1>6 DEF Finish, EndTransaction
  <2> QED
      BY <1>u, <1>w, <2>2, <2>3, <2>4
<1>7. ASSUME NEW t \in Session, RecoverCommitted(t) PROVE QdType' /\ SegType'
    BY <1>u, <1>w, <1>7, <1>s DEF RecoverCommitted
<1>9. ASSUME NEW t \in Session, NEW s \in Seg, AssignXid(t, s) PROVE QdType' /\ SegType'
  <2>1. /\ xact' = [xact EXCEPT ![s][t] = "running"]
        /\ xid' = [xid EXCEPT ![s][t] = nextXid[s]]
        /\ nextXid' = [nextXid EXCEPT ![s] = @ + 1]
        /\ UNCHANGED <<qdVars, latestCompletedXid, xmin, ls, oldestXmin, ignored>>
      BY <1>9 DEF AssignXid
  <2>2. \A r \in Seg : nextXid'[r] = IF r = s THEN nextXid[r] + 1 ELSE nextXid[r]
      BY <1>u, <2>1
  <2>3. nextXid' \in [Seg -> Nat] /\ \A r \in Seg : latestCompletedXid'[r] < nextXid'[r]
      BY <1>u, <2>1, <2>2
  <2> QED
      BY <1>u, <1>w, <1>q, <2>1, <2>3
<1>10. ASSUME NEW t \in Session, NEW s \in Seg, Move(t, s) PROVE QdType' /\ SegType'
  <2>1. PICK to \in {"distlog", "clog", "committed", "aborted"} : xact' = [xact EXCEPT ![s][t] = to]
      BY <1>t, <1>10, MoveFacts
  <2>2. /\ latestCompletedXid' \in [Seg -> Nat]
        /\ \A r \in Seg : latestCompletedXid'[r] < nextXid[r]
        /\ UNCHANGED <<qdVars, nextXid, xid, xmin, ls, ignored>>
      BY <1>t, <1>10, MoveFacts
  <2> QED
      BY <1>u, <1>w, <1>q, <2>1, <2>2
<1>11. ASSUME NEW t \in Session, NEW s \in Seg, GetSnapshotData(t, s) PROVE QdType' /\ SegType'
  <2>1. PICK l \in LocalSnapshot : /\ ls' = [ls EXCEPT ![s][t] = l]
                                   /\ xmin' = [xmin EXCEPT ![s][t] = IF @ = 0 THEN l.xmin ELSE @]
      BY <1>t, <1>11, LocalSnapshotFacts
  <2>2. UNCHANGED <<qdVars, nextXid, latestCompletedXid, xact, xid, oldestXmin, ignored>>
      BY <1>11 DEF GetSnapshotData
  <2>3. l.xmin \in Nat
      BY DEF LocalSnapshot
  <2> QED
      BY <1>u, <1>q, <2>1, <2>2, <2>3
<1>12. ASSUME NEW t \in Session, NEW s \in Seg, MakeReady(t, s) PROVE QdType' /\ SegType'
  <2>1. ls[s][t] \in LocalSnapshot
      BY <1>u, <1>12 DEF MakeReady
  <2>2. [ls[s][t] EXCEPT !.ready = TRUE] \in LocalSnapshot
      BY <2>1 DEF LocalSnapshot
  <2>3. ls' = [ls EXCEPT ![s] = [ls[s] EXCEPT ![t] = [ls[s][t] EXCEPT !.ready = TRUE]]]
      BY <1>u, <1>12 DEF MakeReady
  <2>4. ls' \in [Seg -> [Session -> LocalSnapshot \cup {NoSnap}]]
      BY <1>u, <2>2, <2>3
  <2>5. UNCHANGED <<qdVars, nextXid, latestCompletedXid, xact, xid, xmin, ignored>>
      BY <1>12 DEF MakeReady
  <2> QED
      BY <1>u, <1>q, <2>4, <2>5
<1>13. ASSUME NEW t \in Session, NEW s \in Seg, NEW u \in Session, SetIgnoreHint(t, s, u)
       PROVE  QdType' /\ SegType'
    BY <1>u, <1>q, <1>13 DEF SetIgnoreHint
<1> HIDE DEF QdType, SegType
<1> QED
    BY <1>t, <1>2, <1>3, <1>4, <1>5, <1>6, <1>7, <1>9, <1>10, <1>11, <1>12, <1>13, StepCases

\* Steps that are none of the coordinator's.
LEMMA SegmentSteps ==
    ASSUME NEW t \in Session, NEW s \in Seg
    PROVE  \/ AssignXid(t, s) \/ Move(t, s) \/ GetSnapshotData(t, s) \/ MakeReady(t, s)
           \/ \E u \in Session : SetIgnoreHint(t, s, u)
           => UNCHANGED qdVars
BY DEF AssignXid, Move, SetCommittedTree, CommitTree, ProcArrayRemove, CommitStep,
       AbortOnSegment, GetSnapshotData,
       MakeReady, SetIgnoreHint

\* Restart of the coordinator, session by session.
LEMMA CrashFacts ==
    ASSUME SnapshotInv, CrashAndStartup
    PROVE  /\ startGxid' = nextGxid /\ latestCompletedGxid' = nextGxid
           /\ UNCHANGED <<nextGxid, gxid, due, unsure, nextXid, latestCompletedXid, xact, xid,
                          oldestXmin, ignored>>
           /\ \A t \in Session :
                 /\ qd'[t] = IF qd[t] = "open" THEN "aborted"
                             ELSE IF qd[t] = "onePhase" THEN "lost"
                             ELSE IF qd[t] = "committing" THEN "recovering" ELSE qd[t]
                 /\ ds'[t] = NoSnap /\ xminDS'[t] = 0
                 /\ \A s \in Seg : ls'[s][t] = NoSnap
<1> DEFINE live == {t \in Session : qd[t] \in {"open", "onePhase", "committing", "recovering"}}
<1>1. /\ DropSnapshots(live) /\ live \in SUBSET Session
      /\ startGxid' = nextGxid /\ latestCompletedGxid' = nextGxid
      /\ qd' = [t \in Session |-> CASE qd[t] = "open" -> "aborted"
                                    [] qd[t] = "onePhase" -> "lost"
                                    [] qd[t] = "committing" -> "recovering"
                                    [] OTHER -> qd[t]]
      /\ UNCHANGED <<nextGxid, gxid, due, unsure, nextXid, latestCompletedXid, xact, xid,
                     oldestXmin, ignored>>
    BY DEF CrashAndStartup
<1>3. \A t \in Session : t \notin live => /\ ds[t] = NoSnap /\ xminDS[t] = 0
                                          /\ \A s \in Seg : ls[s][t] = NoSnap
    BY DEF SnapshotInv, LiveInv
<1> HIDE DEF live
<1>4. TypeOK
    BY DEF SnapshotInv
<1>5. \A t \in Session : /\ ds'[t] = NoSnap /\ xminDS'[t] = 0
                         /\ \A s \in Seg : ls'[s][t] = NoSnap
    BY <1>1, <1>3, <1>4, DropFacts
<1>7. \A t \in Session : qd'[t] = IF qd[t] = "open" THEN "aborted"
                                  ELSE IF qd[t] = "onePhase" THEN "lost"
                                  ELSE IF qd[t] = "committing" THEN "recovering" ELSE qd[t]
    BY <1>1
<1> QED
    BY <1>1, <1>5, <1>7

\* The end of a transaction on the coordinator, session by session.
LEMMA FinishFacts ==
    ASSUME SnapshotInv, NEW t \in Session, NEW state \in {"ended", "lost", "aborted"}, Finish(t, state)
    PROVE  /\ qd[t] \in {"open", "onePhase", "committing"}
           /\ state = "ended" => AllAre(t, "committed")
           /\ state = "aborted" => qd[t] = "open"
           /\ UNCHANGED <<nextGxid, startGxid, gxid, due, unsure, nextXid, latestCompletedXid, xact, xid, ignored>>
           /\ latestCompletedGxid' \in Nat
           /\ latestCompletedGxid' \in {latestCompletedGxid, gxid[t]}
           /\ latestCompletedGxid <= latestCompletedGxid'
           /\ gxid[t] <= latestCompletedGxid'
           /\ \A u \in Session :
                 /\ qd'[u] = IF u = t THEN state ELSE qd[u]
                 /\ ds'[u] = IF u = t THEN NoSnap ELSE ds[u]
                 /\ xminDS'[u] = IF u = t THEN 0 ELSE xminDS[u]
                 /\ \A s \in Seg : ls'[s][u] = IF u = t THEN NoSnap ELSE ls[s][u]
<1>1. DropSnapshots({t}) /\ ProcArrayEndGxact(t) /\ {t} \in SUBSET Session
    BY DEF Finish, EndTransaction
<1>2. TypeOK
    BY DEF SnapshotInv
<1>3. /\ latestCompletedGxid' \in Nat
      /\ latestCompletedGxid' \in {latestCompletedGxid, gxid[t]}
      /\ latestCompletedGxid <= latestCompletedGxid'
      /\ gxid[t] <= latestCompletedGxid'
    BY <1>1, <1>2, EndGxactFacts
<1>4. \A u \in Session : /\ ds'[u] = IF u = t THEN NoSnap ELSE ds[u]
                         /\ xminDS'[u] = IF u = t THEN 0 ELSE xminDS[u]
                         /\ \A s \in Seg : ls'[s][u] = IF u = t THEN NoSnap ELSE ls[s][u]
    BY <1>1, <1>2, DropFacts
<1>5. /\ qd[t] \in {"open", "onePhase", "committing"}
      /\ state = "ended" => AllAre(t, "committed")
      /\ state = "aborted" => qd[t] = "open"
      /\ qd' = [qd EXCEPT ![t] = state]
      /\ UNCHANGED <<nextGxid, startGxid, gxid, due, unsure, nextXid, latestCompletedXid, xact, xid, ignored>>
    BY DEF Finish, EndTransaction
<1>7. \A u \in Session : qd'[u] = IF u = t THEN state ELSE qd[u]
    BY <1>2, <1>5 DEF TypeOK
<1> QED
    BY <1>3, <1>4, <1>5, <1>7

\* No recorded commit is left to recovery when a snapshot is taken.
LEMMA TakeFacts ==
    ASSUME SnapshotInv, NEW t \in Session, TakeSnapshot(t)
    PROVE  /\ \A u \in Session : qd[u] # "recovering"
           /\ qd[t] \in {"idle", "open"}
           /\ UNCHANGED <<nextGxid, latestCompletedGxid, startGxid, gxid, nextXid,
                          latestCompletedXid, xact, xid, oldestXmin, ignored>>
           /\ \A u \in Session :
                 /\ qd'[u] = IF u = t THEN "open" ELSE qd[u]
                 /\ ds'[u] = IF u = t THEN CreateDistributedSnapshot(t) ELSE ds[u]
                 /\ xminDS'[u] = IF u = t /\ xminDS[t] = 0 THEN CreateDistributedSnapshot(t).xmin
                                 ELSE xminDS[u]
                 /\ due'[u] = IF u = t THEN EndedCommits ELSE due[u]
                 /\ unsure'[u] = IF u = t THEN Unresolved ELSE unsure[u]
                 /\ \A s \in Seg : ls'[s][u] = IF u = t THEN NoSnap ELSE ls[s][u]
<1> DEFINE left == {u \in Session : qd[u] = "recovering"}
           d == CreateDistributedSnapshot(t)
<1>1. IsFiniteSet(left)
    BY SnapshotAssumption, FS_Subset
<1>2. Cardinality(left) = 0
    BY DEF TakeSnapshot, NumCommittedGxacts
<1>3. left = {}
    BY <1>1, <1>2, FS_EmptySet
<1>4. /\ qd[t] \in {"idle", "open"}
      /\ qd' = [qd EXCEPT ![t] = "open"]
      /\ ds' = [ds EXCEPT ![t] = d]
      /\ xminDS' = [xminDS EXCEPT ![t] = IF @ = 0 THEN d.xmin ELSE @]
      /\ ls' = [s \in Seg |-> [ls[s] EXCEPT ![t] = NoSnap]]
      /\ due' = [due EXCEPT ![t] = EndedCommits]
      /\ unsure' = [unsure EXCEPT ![t] = Unresolved]
      /\ UNCHANGED <<nextGxid, latestCompletedGxid, startGxid, gxid, nextXid,
                     latestCompletedXid, xact, xid, oldestXmin, ignored>>
    BY DEF TakeSnapshot, SnapshotFor
<1>5. \A u \in Session : qd[u] # "recovering"
    BY <1>3
<1> HIDE DEF left, d
<1> QED
    BY <1>4, <1>5 DEF SnapshotInv, TypeOK, d

\* The start of a commit, session by session.
LEMMA BeginFacts ==
    ASSUME SnapshotInv, NEW t \in Session, Begin(t)
    PROVE  /\ qd[t] = "open"
           /\ \A s \in Seg : ls[s][t] # NoSnap => ls[s][t].ready
           /\ \E state \in {"onePhase", "committing"} :
                 \A u \in Session : qd'[u] = IF u = t THEN state ELSE qd[u]
           /\ UNCHANGED <<nextGxid, latestCompletedGxid, startGxid, gxid, xminDS, ds, due, unsure, nextXid,
                          latestCompletedXid, xact, xid, xmin, ls, oldestXmin, ignored>>
<1>1. PICK state \in {"onePhase", "committing"} : StartCommit(t, state)
    BY DEF Begin
<1>2. qd \in [Session -> QdState]
    BY DEF SnapshotInv, TypeOK
<1>3. \A u \in Session : qd'[u] = IF u = t THEN state ELSE qd[u]
    BY <1>1, <1>2 DEF StartCommit
<1> QED
    BY <1>1, <1>3 DEF StartCommit, segVars

\* Gxids: a gxid is handed out below nextGxid, and ending moves latestCompletedGxid up.
LEMMA GxidStep ==
    ASSUME SnapshotInv, Next
    PROVE  GxidInv'
<1>t. TypeOK /\ GxidInv /\ LiveInv /\ XidInv
    BY DEF SnapshotInv
<1>u. /\ nextGxid \in Nat /\ latestCompletedGxid \in Nat /\ startGxid \in Nat
      /\ \A u \in Session : gxid[u] \in Nat
      /\ qd \in [Session -> QdState]
      /\ gxid \in [Session -> Nat]
    BY <1>t DEF TypeOK
<1> USE DEF Over
<1>g. /\ latestCompletedGxid <= nextGxid
      /\ latestCompletedGxid = nextGxid => startGxid = nextGxid
      /\ \A u \in Session :
            /\ gxid[u] < nextGxid
            /\ gxid[u] # 0 => qd[u] # "idle"
            /\ qd[u] \in {"ended", "aborted", "lost", "recovering"} => gxid[u] <= latestCompletedGxid
      /\ \A t, u \in Session : gxid[t] = gxid[u] /\ gxid[t] # 0 => t = u
    BY <1>t DEF GxidInv
<1>q. UNCHANGED <<nextGxid, latestCompletedGxid, startGxid, qd, gxid>> => GxidInv'
    BY <1>g DEF GxidInv
<1>2. CASE CrashAndStartup
  <2>1. /\ startGxid' = nextGxid /\ latestCompletedGxid' = nextGxid
        /\ UNCHANGED <<nextGxid, gxid>>
        /\ \A t \in Session : qd[t] # "idle" => qd'[t] # "idle"
      BY <1>2, CrashFacts
  <2>2. \A u \in Session : gxid[u] <= nextGxid
      BY <1>u, <1>g
  <2>3. \A u \in Session : gxid[u] # 0 => qd'[u] # "idle"
      BY <1>g, <2>1
  <2>4. nextGxid <= nextGxid
      BY <1>u
  <2> QED
      BY <1>g, <2>1, <2>2, <2>3, <2>4 DEF GxidInv
<1>3. ASSUME NEW t \in Session, currentDtxActivate(t) PROVE GxidInv'
  <2>1. /\ qd[t] \in {"idle", "open"}
        /\ qd' = [qd EXCEPT ![t] = "open"]
        /\ gxid' = [gxid EXCEPT ![t] = nextGxid]
        /\ nextGxid' = nextGxid + 1
        /\ UNCHANGED <<latestCompletedGxid, startGxid>>
      BY <1>3 DEF currentDtxActivate
  <2>2. \A u \in Session : /\ qd'[u] = IF u = t THEN "open" ELSE qd[u]
                           /\ gxid'[u] = IF u = t THEN nextGxid ELSE gxid[u]
      BY <1>u, <2>1
  <2>3. latestCompletedGxid <= nextGxid + 1 /\ latestCompletedGxid # nextGxid + 1
      BY <1>u, <1>g
  <2>4. \A u \in Session : gxid'[u] < nextGxid + 1
      BY <1>u, <1>g, <2>2
  <2>5. \A u, v \in Session : gxid'[u] = gxid'[v] /\ gxid'[u] # 0 => u = v
      BY <1>u, <1>g, <2>2
  <2>6. \A u \in Session :
           /\ gxid'[u] # 0 => qd'[u] # "idle"
           /\ qd'[u] \in {"ended", "aborted", "lost", "recovering"} => gxid'[u] <= latestCompletedGxid
      BY <1>g, <2>2
  <2> QED
      BY <2>1, <2>3, <2>4, <2>5, <2>6 DEF GxidInv
<1>4. ASSUME NEW t \in Session, TakeSnapshot(t) PROVE GxidInv'
  <2>1. /\ UNCHANGED <<nextGxid, latestCompletedGxid, startGxid, gxid>>
        /\ \A u \in Session : qd'[u] = IF u = t THEN "open" ELSE qd[u]
      BY <1>4, TakeFacts
  <2> QED
      BY <1>g, <2>1 DEF GxidInv
<1>5. ASSUME NEW t \in Session, Begin(t) PROVE GxidInv'
  <2>1. UNCHANGED <<nextGxid, latestCompletedGxid, startGxid, gxid>>
      BY <1>5, BeginFacts
  <2>2. PICK state \in {"onePhase", "committing"} : \A u \in Session : qd'[u] = IF u = t THEN state ELSE qd[u]
      BY <1>5, BeginFacts
  <2> QED
      BY <1>g, <2>1, <2>2 DEF GxidInv
<1>6. ASSUME NEW t \in Session, NEW state \in {"ended", "lost", "aborted"}, Finish(t, state) PROVE GxidInv'
  <2>1. /\ UNCHANGED <<nextGxid, startGxid, gxid>>
        /\ latestCompletedGxid' \in Nat
        /\ latestCompletedGxid' \in {latestCompletedGxid, gxid[t]}
        /\ latestCompletedGxid <= latestCompletedGxid'
        /\ gxid[t] <= latestCompletedGxid'
        /\ \A u \in Session : qd'[u] = IF u = t THEN state ELSE qd[u]
      BY <1>6, FinishFacts
  <2>2. latestCompletedGxid' <= nextGxid /\ (latestCompletedGxid' = nextGxid => startGxid = nextGxid)
      BY <1>u, <1>g, <2>1
  <2>3. \A u \in Session : qd'[u] \in {"ended", "aborted", "lost", "recovering"} => gxid[u] <= latestCompletedGxid'
      BY <1>u, <1>g, <2>1
  <2>4. \A u \in Session : gxid[u] # 0 => qd'[u] # "idle"
      BY <1>g, <2>1
  <2> QED
      BY <1>g, <2>1, <2>2, <2>3, <2>4 DEF GxidInv
<1>7. ASSUME NEW t \in Session, RecoverCommitted(t) PROVE GxidInv'
  <2>1. /\ UNCHANGED <<nextGxid, latestCompletedGxid, startGxid, gxid>>
        /\ qd[t] = "recovering"
        /\ \A u \in Session : qd'[u] = IF u = t THEN "ended" ELSE qd[u]
      BY <1>u, <1>7 DEF RecoverCommitted
  <2> QED
      BY <1>g, <2>1 DEF GxidInv
<1>8. UNCHANGED qdVars => GxidInv'
    BY <1>q DEF qdVars
<1> QED
    BY <1>t, <1>2, <1>3, <1>4, <1>5, <1>6, <1>7, <1>8, StepCases, SegmentSteps

\* A part moves on a segment as the coordinator has it.
LEMMA PhaseStep ==
    ASSUME SnapshotInv, Next
    PROVE  PhaseInv'
<1>t. TypeOK /\ PhaseInv /\ LiveInv /\ XidInv
    BY DEF SnapshotInv
<1>u. /\ qd \in [Session -> QdState]
      /\ gxid \in [Session -> Nat] /\ nextGxid \in Nat
      /\ xact \in [Seg -> [Session -> XactState]]
      /\ xid \in [Seg -> [Session -> Nat]]
      /\ nextXid \in [Seg -> Nat]
      /\ \A s \in Seg : nextXid[s] # 0
  <2>1. \A s \in Seg : nextXid[s] \in Nat /\ latestCompletedXid[s] \in Nat /\ latestCompletedXid[s] < nextXid[s]
      BY <1>t DEF TypeOK
  <2>2. \A s \in Seg : nextXid[s] # 0
      BY <2>1
  <2> QED
      BY <1>t, <2>2 DEF TypeOK
<1> USE DEF PhaseInv
<1>a. \A u \in Session : (\A s \in Seg : xact'[s][u] = xact[s][u]) =>
                            (AllAre(u, "committed")' <=> AllAre(u, "committed"))
    BY DEF AllAre, Participants
<1>q. UNCHANGED <<qd, gxid, xact, xid>> => PhaseInv'
    BY <1>t, <1>a
<1>2. CASE CrashAndStartup
  <2>1. /\ UNCHANGED <<gxid, xid, xact>>
        /\ \A t \in Session :
              qd'[t] = IF qd[t] = "open" THEN "aborted"
                       ELSE IF qd[t] = "onePhase" THEN "lost"
                       ELSE IF qd[t] = "committing" THEN "recovering" ELSE qd[t]
      BY <1>2, CrashFacts
  <2> QED
      BY <1>t, <1>a, <2>1
<1>3. ASSUME NEW t \in Session, currentDtxActivate(t) PROVE PhaseInv'
  <2>1. /\ qd[t] \in {"idle", "open"}
        /\ gxid[t] = 0
        /\ \A u \in Session : /\ qd'[u] = IF u = t THEN "open" ELSE qd[u]
                              /\ gxid'[u] = IF u = t THEN nextGxid ELSE gxid[u]
        /\ UNCHANGED <<xact, xid>>
      BY <1>u, <1>3 DEF currentDtxActivate, segVars
  <2>2. \A s \in Seg : xact[s][t] = "none"
      BY <1>t, <2>1
  <2> QED
      BY <1>t, <1>a, <2>1, <2>2
<1>4. ASSUME NEW t \in Session, TakeSnapshot(t) PROVE PhaseInv'
  <2>1. /\ UNCHANGED <<gxid, xact, xid>>
        /\ qd[t] \in {"idle", "open"}
        /\ \A u \in Session : qd'[u] = IF u = t THEN "open" ELSE qd[u]
      BY <1>4, TakeFacts
  <2> QED
      BY <1>t, <1>a, <2>1
<1>5. ASSUME NEW t \in Session, Begin(t) PROVE PhaseInv'
  <2>1. UNCHANGED <<gxid, xact, xid>>
      BY <1>5, BeginFacts
  <2>2. PICK state \in {"onePhase", "committing"} : \A u \in Session : qd'[u] = IF u = t THEN state ELSE qd[u]
      BY <1>5, BeginFacts
  <2> QED
      BY <1>t, <1>a, <2>1, <2>2
<1>6. ASSUME NEW t \in Session, NEW state \in {"ended", "lost", "aborted"}, Finish(t, state) PROVE PhaseInv'
  <2>1. /\ UNCHANGED <<gxid, xact, xid>>
        /\ state = "ended" => AllAre(t, "committed")
        /\ state = "aborted" => qd[t] = "open"
        /\ \A u \in Session : qd'[u] = IF u = t THEN state ELSE qd[u]
      BY <1>6, FinishFacts
  <2> QED
      BY <1>t, <1>a, <2>1
<1>7. ASSUME NEW t \in Session, RecoverCommitted(t) PROVE PhaseInv'
  <2>1. /\ UNCHANGED <<gxid, xact, xid>>
        /\ AllAre(t, "committed")
        /\ \A u \in Session : qd'[u] = IF u = t THEN "ended" ELSE qd[u]
      BY <1>u, <1>7 DEF RecoverCommitted, segVars
  <2> QED
      BY <1>t, <1>a, <2>1
<1>9. ASSUME NEW t \in Session, NEW s \in Seg, AssignXid(t, s) PROVE PhaseInv'
  <2>1. /\ qd[t] = "open" /\ gxid[t] # 0
        /\ UNCHANGED <<qd, gxid>>
        /\ \A r \in Seg, u \in Session :
              /\ xact'[r][u] = IF r = s /\ u = t THEN "running" ELSE xact[r][u]
              /\ xid'[r][u] = IF r = s /\ u = t THEN nextXid[s] ELSE xid[r][u]
      BY <1>u, <1>9 DEF AssignXid, qdVars
  <2>2. nextXid[s] # 0
      BY <1>u
  <2>3. \A u \in Session : u # t => (AllAre(u, "committed")' <=> AllAre(u, "committed"))
      BY <1>a, <2>1
  <2> QED
      BY <1>t, <2>1, <2>2, <2>3
<1>10. ASSUME NEW t \in Session, NEW s \in Seg, Move(t, s) PROVE PhaseInv'
  <2>1. /\ qd[t] \notin {"idle", "ended"}
        /\ xact[s][t] \in {"running", "distlog", "clog"}
        /\ UNCHANGED <<qdVars, xid>>
      BY <1>t, <1>10, MoveFacts
  <2>2. PICK to \in {"distlog", "clog", "committed", "aborted"} :
              /\ xact' = [xact EXCEPT ![s][t] = to]
              /\ qd[t] \in {"open", "aborted"} => to = "aborted"
      BY <1>t, <1>10, MoveFacts
  <2>3. \A r \in Seg, u \in Session : xact'[r][u] = IF r = s /\ u = t THEN to ELSE xact[r][u]
      BY <1>u, <2>2
  <2>4. UNCHANGED <<qd, gxid, xid>>
      BY <2>1 DEF qdVars
  <2>5. \A u \in Session : u # t => (AllAre(u, "committed")' <=> AllAre(u, "committed"))
      BY <1>a, <2>3
  <2> QED
      BY <1>t, <2>1, <2>2, <2>3, <2>4, <2>5
<1>11. ASSUME NEW t \in Session, NEW s \in Seg,
              \/ GetSnapshotData(t, s) \/ MakeReady(t, s) \/ \E u \in Session : SetIgnoreHint(t, s, u)
       PROVE  PhaseInv'
    BY <1>q, <1>11 DEF GetSnapshotData, MakeReady, SetIgnoreHint, qdVars
<1> QED
    BY <1>t, <1>2, <1>3, <1>4, <1>5, <1>6, <1>7, <1>9, <1>10, <1>11, StepCases

\* Xids of a segment: the ProcArray, oldestXmin and the hints stay below nextXid.
LEMMA XidStep ==
    ASSUME SnapshotInv, Next
    PROVE  XidInv'
<1>t. TypeOK /\ PhaseInv /\ LiveInv /\ XidInv
    BY DEF SnapshotInv
<1>o. \A s \in Seg : oldestXmin'[s] \in Nat /\ oldestXmin'[s] <= nextXid[s]
    BY OldestStep
<1>u. /\ xact \in [Seg -> [Session -> XactState]]
      /\ xid \in [Seg -> [Session -> Nat]]
      /\ nextXid \in [Seg -> Nat]
      /\ latestCompletedXid \in [Seg -> Nat]
      /\ ignored \in [Seg -> SUBSET Session]
      /\ \A s \in Seg : latestCompletedXid[s] < nextXid[s]
    BY <1>t DEF TypeOK
<1>x. \A s \in Seg :
        /\ \A u \in Session :
              /\ xid[s][u] < nextXid[s]
              /\ xact[s][u] \in {"committed", "aborted"} => xid[s][u] <= latestCompletedXid[s]
              /\ u \in ignored[s] => xid[s][u] # 0
        /\ \A t, u \in Session : xid[s][t] = xid[s][u] /\ xid[s][t] # 0 => t = u
    BY <1>t DEF XidInv
\* Steps that assign no xid, and complete only what they end.
<1>e. ASSUME UNCHANGED <<nextXid, xid, ignored>>,
             \A s \in Seg : /\ latestCompletedXid'[s] \in Nat
                            /\ latestCompletedXid[s] <= latestCompletedXid'[s]
                            /\ latestCompletedXid'[s] < nextXid[s],
             \A s \in Seg, u \in Session : xact'[s][u] \in {"committed", "aborted"} =>
                   xact'[s][u] = xact[s][u] \/ xid[s][u] <= latestCompletedXid'[s]
      PROVE  XidInv'
  <2>1. ASSUME NEW s \in Seg, NEW u \in Session, xact'[s][u] \in {"committed", "aborted"}
        PROVE  xid[s][u] <= latestCompletedXid'[s]
    <3>1. xid[s][u] \in Nat /\ latestCompletedXid[s] \in Nat /\ latestCompletedXid'[s] \in Nat
        BY <1>u, <1>e
    <3>2. latestCompletedXid[s] <= latestCompletedXid'[s]
        BY <1>e
    <3>3. \/ xid[s][u] <= latestCompletedXid[s]
          \/ xid[s][u] <= latestCompletedXid'[s]
        BY <1>x, <1>e, <2>1
    <3> QED
        BY <3>1, <3>2, <3>3
  <2> QED
      BY <1>o, <1>x, <1>e, <2>1 DEF XidInv
<1>l. UNCHANGED latestCompletedXid => \A s \in Seg : /\ latestCompletedXid'[s] \in Nat
                                                     /\ latestCompletedXid[s] <= latestCompletedXid'[s]
                                                     /\ latestCompletedXid'[s] < nextXid[s]
    BY <1>u
<1>2. CASE CrashAndStartup
  <2>1. UNCHANGED <<nextXid, xid, ignored, latestCompletedXid, xact>>
      BY <1>2, CrashFacts
  <2> QED
      BY <1>e, <1>l, <2>1
<1>3. ASSUME NEW t \in Session, \/ currentDtxActivate(t) \/ TakeSnapshot(t) \/ Begin(t) \/ RecoverCommitted(t)
                                \/ \E state \in {"ended", "lost", "aborted"} : Finish(t, state)
      PROVE  XidInv'
  <2>1. UNCHANGED <<nextXid, xid, ignored, latestCompletedXid, xact>>
      BY <1>3 DEF currentDtxActivate, TakeSnapshot, SnapshotFor, Begin, StartCommit, Finish, RecoverCommitted, segVars
  <2> QED
      BY <1>e, <1>l, <2>1
<1>9. ASSUME NEW t \in Session, NEW s \in Seg, AssignXid(t, s) PROVE XidInv'
  <2>1. /\ UNCHANGED <<latestCompletedXid, ignored>>
        /\ xact[s][t] = "none"
        /\ \A r \in Seg, u \in Session :
              /\ xact'[r][u] = IF r = s /\ u = t THEN "running" ELSE xact[r][u]
              /\ xid'[r][u] = IF r = s /\ u = t THEN nextXid[s] ELSE xid[r][u]
        /\ \A r \in Seg : nextXid'[r] = IF r = s THEN nextXid[r] + 1 ELSE nextXid[r]
      BY <1>u, <1>9 DEF AssignXid
  <2> SUFFICES ASSUME NEW r \in Seg
               PROVE  /\ latestCompletedXid'[r] < nextXid'[r]
                      /\ oldestXmin'[r] <= nextXid'[r]
                      /\ \A u \in Session :
                            /\ xid'[r][u] < nextXid'[r]
                            /\ xact'[r][u] \in {"committed", "aborted"} => xid'[r][u] <= latestCompletedXid'[r]
                            /\ u \in ignored'[r] => xid'[r][u] # 0
                      /\ \A v, u \in Session : xid'[r][v] = xid'[r][u] /\ xid'[r][v] # 0 => v = u
      BY DEF XidInv
  <2>2. /\ nextXid[r] \in Nat /\ latestCompletedXid[r] \in Nat /\ latestCompletedXid[r] < nextXid[r]
        /\ oldestXmin'[r] \in Nat /\ oldestXmin'[r] <= nextXid[r] /\ nextXid[r] # 0
        /\ \A u \in Session : xid[r][u] \in Nat /\ xid[r][u] < nextXid[r]
      BY <1>u, <1>o, <1>x
  <2>3. latestCompletedXid'[r] < nextXid'[r] /\ oldestXmin'[r] <= nextXid'[r]
      BY <2>1, <2>2
  <2>4. \A u \in Session : xid'[r][u] < nextXid'[r]
      BY <2>1, <2>2
  <2>5. \A u \in Session : /\ xact'[r][u] \in {"committed", "aborted"} => xid'[r][u] <= latestCompletedXid'[r]
                           /\ u \in ignored'[r] => xid'[r][u] # 0
      BY <1>x, <2>1, <2>2
  <2>6. \A v, u \in Session : xid'[r][v] = xid'[r][u] /\ xid'[r][v] # 0 => v = u
      BY <1>x, <2>1, <2>2
  <2> QED
      BY <2>3, <2>4, <2>5, <2>6
<1>10. ASSUME NEW t \in Session, NEW s \in Seg, Move(t, s) PROVE XidInv'
  <2>1. /\ \A r \in Seg : /\ latestCompletedXid'[r] \in Nat
                          /\ latestCompletedXid[r] <= latestCompletedXid'[r]
                          /\ latestCompletedXid'[r] < nextXid[r]
        /\ UNCHANGED <<nextXid, xid, ignored>>
      BY <1>t, <1>10, MoveFacts
  <2>2. PICK to \in {"distlog", "clog", "committed", "aborted"} :
              /\ xact' = [xact EXCEPT ![s][t] = to]
              /\ to \in {"committed", "aborted"} => xid[s][t] <= latestCompletedXid'[s]
      BY <1>t, <1>10, MoveFacts
  <2>3. \A r \in Seg, u \in Session : xact'[r][u] = IF r = s /\ u = t THEN to ELSE xact[r][u]
      BY <1>u, <2>2
  <2> QED
      BY <1>e, <2>1, <2>2, <2>3
<1>11. ASSUME NEW t \in Session, NEW s \in Seg, GetSnapshotData(t, s) \/ MakeReady(t, s) PROVE XidInv'
  <2>1. UNCHANGED <<nextXid, xid, ignored, latestCompletedXid, xact>>
      BY <1>11 DEF GetSnapshotData, MakeReady
  <2> QED
      BY <1>e, <1>l, <2>1
<1>12. ASSUME NEW t \in Session, NEW s \in Seg, NEW u \in Session, SetIgnoreHint(t, s, u) PROVE XidInv'
  <2>1. /\ xid[s][u] # 0
        /\ \A r \in Seg : ignored'[r] = IF r = s THEN ignored[r] \cup {u} ELSE ignored[r]
        /\ UNCHANGED <<nextXid, xid, latestCompletedXid, xact>>
      BY <1>u, <1>12 DEF SetIgnoreHint
  <2> QED
      BY <1>o, <1>u, <1>x, <2>1 DEF XidInv
<1> QED
    BY <1>t, <1>2, <1>3, <1>9, <1>10, <1>11, <1>12, StepCases

\* Snapshots come and go with the transactions that hold them.
LEMMA LiveStep ==
    ASSUME SnapshotInv, Next
    PROVE  LiveInv'
<1>t. TypeOK /\ GxidInv /\ LiveInv /\ XidInv
    BY DEF SnapshotInv
<1>u. /\ qd \in [Session -> QdState]
      /\ latestCompletedGxid \in Nat
      /\ \A t \in Session : xminDS[t] \in Nat
      /\ \A t \in Session : ds[t] # NoSnap =>
            /\ ds[t] \in DistributedSnapshot
            /\ ds[t].xmin \in Nat /\ ds[t].xmax \in Nat /\ ds[t].xminAll \in Nat
            /\ ds[t].inProgress \in SUBSET Nat
      /\ ls \in [Seg -> [Session -> LocalSnapshot \cup {NoSnap}]]
  <2>1. \A t \in Session : ds[t] # NoSnap => ds[t] \in DistributedSnapshot
      BY <1>t DEF TypeOK
  <2> QED
      BY <1>t, <2>1 DEF TypeOK, DistributedSnapshot
<1>v. /\ \A t \in Session :
            /\ ds[t] # NoSnap <=> xminDS[t] # 0
            /\ ds[t] # NoSnap => /\ qd[t] \in {"open", "onePhase", "committing"}
                                 /\ xminDS[t] <= latestCompletedGxid + 1
                                 /\ ds[t].xmax <= latestCompletedGxid + 1
                                 /\ ds[t].xmin <= ds[t].xmax
                                 /\ ds[t].xminAll <= ds[t].xmax
                                 /\ \A g \in ds[t].inProgress : ds[t].xmin <= g
            /\ \A s \in Seg : ls[s][t] # NoSnap => /\ ds[t] # NoSnap
                                                   /\ ls[s][t].ready \/ qd[t] = "open"
      /\ \A t, u \in Session : qd[u] = "recovering" => ds[t] = NoSnap
    BY <1>t DEF LiveInv
\* Who has no snapshot may do anything.
<1>e. ASSUME NEW T \in SUBSET Session,
             latestCompletedGxid' \in Nat, latestCompletedGxid <= latestCompletedGxid',
             \A t \in T : ds'[t] = NoSnap /\ xminDS'[t] = 0 /\ \A s \in Seg : ls'[s][t] = NoSnap,
             \A t \in Session \ T : /\ qd'[t] = qd[t] /\ ds'[t] = ds[t] /\ xminDS'[t] = xminDS[t]
                                    /\ \A s \in Seg : ls'[s][t] = ls[s][t],
             \A t \in T : qd'[t] # "recovering"
      PROVE  LiveInv'
  <2>1. \A t \in Session \ T : ds[t] # NoSnap => /\ xminDS[t] <= latestCompletedGxid' + 1
                                                 /\ ds[t].xmax <= latestCompletedGxid' + 1
      BY <1>u, <1>v, <1>e
  <2> QED
      BY <1>v, <1>e, <2>1 DEF LiveInv
<1>2. CASE CrashAndStartup
  <2>1. \A t \in Session : ds'[t] = NoSnap /\ xminDS'[t] = 0 /\ \A s \in Seg : ls'[s][t] = NoSnap
      BY <1>2, CrashFacts
  <2> QED
      BY <2>1 DEF LiveInv
<1>3. ASSUME NEW t \in Session, currentDtxActivate(t) PROVE LiveInv'
  <2>1. /\ qd[t] \in {"idle", "open"}
        /\ \A u \in Session : qd'[u] = IF u = t THEN "open" ELSE qd[u]
        /\ UNCHANGED <<latestCompletedGxid, ds, xminDS, ls>>
      BY <1>u, <1>3 DEF currentDtxActivate, segVars
  <2> QED
      BY <1>v, <2>1 DEF LiveInv
<1>4. ASSUME NEW t \in Session, TakeSnapshot(t) PROVE LiveInv'
  <2> DEFINE d == CreateDistributedSnapshot(t)
  <2>1. /\ d \in DistributedSnapshot
        /\ d.xmax = latestCompletedGxid + 1
        /\ d.inProgress = {g \in LiveGxids : g < d.xmax} \ {gxid[t]}
        /\ d.xmin # 0 /\ d.xmin <= d.xmax /\ d.xminAll <= d.xmax
        /\ \A g \in LiveGxids : g < d.xmax => d.xmin <= g /\ d.xminAll <= g
      BY <1>t, CreateFacts
  <2>2. \A u \in Session : qd[u] # "recovering"
      BY <1>4, TakeFacts
  <2>3. UNCHANGED latestCompletedGxid
      BY <1>4, TakeFacts
  <2>4. \A u \in Session :
              /\ qd'[u] = IF u = t THEN "open" ELSE qd[u]
              /\ ds'[u] = IF u = t THEN d ELSE ds[u]
              /\ xminDS'[u] = IF u = t /\ xminDS[t] = 0 THEN d.xmin ELSE xminDS[u]
              /\ \A s \in Seg : ls'[s][u] = IF u = t THEN NoSnap ELSE ls[s][u]
      BY <1>4, TakeFacts
  <2> HIDE DEF d
  <2>5. d # NoSnap
      BY <2>1, SnapshotAssumption
  <2>6. /\ \A g \in d.inProgress : d.xmin <= g
        /\ d.xmax <= latestCompletedGxid + 1
        /\ d.xmin <= latestCompletedGxid + 1
    <3>1. \A g \in d.inProgress : d.xmin <= g
        BY <2>1
    <3>2. d.xmax <= latestCompletedGxid + 1 /\ d.xmin <= latestCompletedGxid + 1
        BY <1>u, <2>1
    <3> QED
        BY <3>1, <3>2
  <2>7. xminDS'[t] # 0 /\ xminDS'[t] <= latestCompletedGxid + 1
      BY <1>v, <2>1, <2>4, <2>6
  <2> QED
      BY <1>v, <2>1, <2>2, <2>3, <2>4, <2>5, <2>6, <2>7 DEF LiveInv
<1>5. ASSUME NEW t \in Session, Begin(t) PROVE LiveInv'
  <2>1. /\ qd[t] = "open"
        /\ \A s \in Seg : ls[s][t] # NoSnap => ls[s][t].ready
        /\ UNCHANGED <<latestCompletedGxid, ds, xminDS, ls>>
      BY <1>5, BeginFacts
  <2>2. PICK state \in {"onePhase", "committing"} : \A u \in Session : qd'[u] = IF u = t THEN state ELSE qd[u]
      BY <1>5, BeginFacts
  <2> QED
      BY <1>v, <2>1, <2>2 DEF LiveInv
<1>6. ASSUME NEW t \in Session, NEW state \in {"ended", "lost", "aborted"}, Finish(t, state) PROVE LiveInv'
  <2>1. /\ latestCompletedGxid' \in Nat /\ latestCompletedGxid <= latestCompletedGxid'
        /\ \A u \in Session :
              /\ qd'[u] = IF u = t THEN state ELSE qd[u]
              /\ ds'[u] = IF u = t THEN NoSnap ELSE ds[u]
              /\ xminDS'[u] = IF u = t THEN 0 ELSE xminDS[u]
              /\ \A s \in Seg : ls'[s][u] = IF u = t THEN NoSnap ELSE ls[s][u]
      BY <1>6, FinishFacts
  <2> DEFINE T == {t}
  <2>2. /\ T \in SUBSET Session
        /\ \A u \in T : ds'[u] = NoSnap /\ xminDS'[u] = 0 /\ \A s \in Seg : ls'[s][u] = NoSnap
        /\ \A u \in Session \ T : /\ qd'[u] = qd[u] /\ ds'[u] = ds[u] /\ xminDS'[u] = xminDS[u]
                                  /\ \A s \in Seg : ls'[s][u] = ls[s][u]
        /\ \A u \in T : qd'[u] # "recovering"
      BY <2>1
  <2> HIDE DEF T
  <2> QED
      BY <1>e, <2>1, <2>2
<1>7. ASSUME NEW t \in Session, RecoverCommitted(t) PROVE LiveInv'
  <2>1. /\ qd[t] = "recovering"
        /\ \A u \in Session : qd'[u] = IF u = t THEN "ended" ELSE qd[u]
        /\ UNCHANGED <<latestCompletedGxid, ds, xminDS, ls>>
      BY <1>u, <1>7 DEF RecoverCommitted, segVars
  <2>2. \A u \in Session : ds[u] = NoSnap
      BY <1>v, <2>1
  <2> QED
      BY <1>v, <2>1, <2>2 DEF LiveInv
<1>9. ASSUME NEW t \in Session, NEW s \in Seg,
             AssignXid(t, s) \/ Move(t, s) \/ \E u \in Session : SetIgnoreHint(t, s, u)
      PROVE  LiveInv'
  <2>1. UNCHANGED <<latestCompletedGxid, qd, ds, xminDS, ls>>
      BY <1>9 DEF AssignXid, Move, SetCommittedTree, CommitTree, ProcArrayRemove, CommitStep,
                  AbortOnSegment, SetIgnoreHint, qdVars
  <2> QED
      BY <1>v, <2>1 DEF LiveInv
<1>10. ASSUME NEW t \in Session, NEW s \in Seg, GetSnapshotData(t, s) \/ MakeReady(t, s) PROVE LiveInv'
  <2>1. CASE GetSnapshotData(t, s)
    <3>1. /\ UNCHANGED <<latestCompletedGxid, qd, ds, xminDS>>
          /\ qd[t] = "open" /\ ds[t] # NoSnap
        BY <2>1 DEF GetSnapshotData, qdVars
    <3>2. PICK l \in LocalSnapshot : ls' = [ls EXCEPT ![s][t] = l]
        BY <1>t, <2>1, LocalSnapshotFacts
    <3>3. \A r \in Seg, u \in Session : r # s \/ u # t => ls'[r][u] = ls[r][u]
        BY <1>u, <3>2
    <3> QED
        BY <1>v, <3>1, <3>3 DEF LiveInv
  <2>2. CASE MakeReady(t, s)
    <3>1. UNCHANGED <<latestCompletedGxid, qd, ds, xminDS>> /\ ls[s][t] # NoSnap
        BY <2>2 DEF MakeReady, qdVars
    <3>2. ls' = [ls EXCEPT ![s] = [ls[s] EXCEPT ![t] = [ls[s][t] EXCEPT !.ready = TRUE]]]
        BY <1>u, <2>2 DEF MakeReady
    <3>3. \A r \in Seg, u \in Session : r # s \/ u # t => ls'[r][u] = ls[r][u]
        BY <1>u, <3>2
    <3>4. ls'[s][t] = [ls[s][t] EXCEPT !.ready = TRUE] /\ ls[s][t] \in LocalSnapshot
        BY <1>u, <3>1, <3>2
    <3>5. ls'[s][t].ready
        BY <3>4 DEF LocalSnapshot
    <3>6. ds[t] # NoSnap
        BY <1>v, <3>1
    <3> QED
        BY <1>v, <3>1, <3>3, <3>5, <3>6 DEF LiveInv
  <2> QED
      BY <1>10, <2>1, <2>2
<1> QED
    BY <1>t, <1>2, <1>3, <1>4, <1>5, <1>6, <1>7, <1>9, <1>10, StepCases

\* What is over stays over, and a part that has ended stays as it is.
LEMMA OverStays ==
    ASSUME SnapshotInv, Next, NEW u \in Session
    PROVE  /\ Over(u) => qd'[u] = qd[u]
           /\ qd[u] = "recovering" => qd'[u] \in {"ended", "recovering"}
           /\ \A s \in Seg : \/ xact[s][u] \in {"committed", "aborted"}
                             \/ xact[s][u] = "none" /\ Over(u)
                             => xact'[s][u] = xact[s][u]
<1>t. TypeOK /\ XidInv /\ LiveInv /\ PhaseInv
    BY DEF SnapshotInv
<1>u. /\ qd \in [Session -> QdState]
      /\ xact \in [Seg -> [Session -> XactState]]
    BY <1>t DEF TypeOK
<1> DEFINE SameQd == /\ Over(u) => qd'[u] = qd[u]
                     /\ qd[u] = "recovering" => qd'[u] \in {"ended", "recovering"}
           SamePart == \A s \in Seg : \/ xact[s][u] \in {"committed", "aborted"}
                                      \/ xact[s][u] = "none" /\ Over(u)
                                      => xact'[s][u] = xact[s][u]
           Same == SameQd /\ SamePart
<1>x. UNCHANGED xact => SamePart
    OBVIOUS
<1>q. UNCHANGED qd => SameQd
    OBVIOUS
<1>1. ASSUME CrashAndStartup PROVE Same
    BY <1>1, CrashFacts DEF Over
<1>2. ASSUME NEW t \in Session, currentDtxActivate(t) \/ RecoverCommitted(t) PROVE Same
  <2>1. UNCHANGED xact
      BY <1>2 DEF currentDtxActivate, RecoverCommitted, segVars
  <2>2. SameQd
      BY <1>u, <1>2 DEF currentDtxActivate, RecoverCommitted, Over
  <2> QED
      BY <1>x, <2>1, <2>2
<1>3. ASSUME NEW t \in Session, TakeSnapshot(t) PROVE Same
    BY <1>3, TakeFacts DEF Over
<1>4. ASSUME NEW t \in Session, Begin(t) PROVE Same
    BY <1>4, BeginFacts DEF Over
<1>5. ASSUME NEW t \in Session, NEW state \in {"ended", "lost", "aborted"}, Finish(t, state) PROVE Same
    BY <1>5, FinishFacts DEF Over
<1>6. ASSUME NEW t \in Session, NEW s \in Seg, AssignXid(t, s) PROVE Same
    BY <1>u, <1>6 DEF AssignXid, qdVars, Over
<1>7. ASSUME NEW t \in Session, NEW s \in Seg, Move(t, s) PROVE Same
  <2>1. /\ xact[s][t] \in {"running", "distlog", "clog"}
        /\ \E to \in {"distlog", "clog", "committed", "aborted"} : xact' = [xact EXCEPT ![s][t] = to]
        /\ UNCHANGED qdVars
      BY <1>t, <1>7, MoveFacts
  <2>2. SamePart
      BY <1>u, <2>1
  <2>3. UNCHANGED qd
      BY <2>1 DEF qdVars
  <2> QED
      BY <1>q, <2>2, <2>3
<1>8. ASSUME NEW t \in Session, NEW s \in Seg,
             GetSnapshotData(t, s) \/ MakeReady(t, s) \/ \E v \in Session : SetIgnoreHint(t, s, v)
      PROVE  Same
  <2>1. UNCHANGED <<qd, xact>>
      BY <1>8 DEF GetSnapshotData, MakeReady, SetIgnoreHint, qdVars
  <2> QED
      BY <1>x, <1>q, <2>1
<1> HIDE DEF SameQd, SamePart
<1>9. Same
    BY <1>t, <1>1, <1>2, <1>3, <1>4, <1>5, <1>6, <1>7, <1>8, StepCases
<1> QED
    BY <1>9 DEF SameQd, SamePart

\* A transaction that is over and has one end on all its segments keeps it.
LEMMA AllAreStays ==
    ASSUME SnapshotInv, Next, NEW u \in Session, Over(u), NEW end \in {"committed", "aborted"}, AllAre(u, end)
    PROVE  AllAre(u, end)'
<1>1. \A s \in Seg : xact[s][u] \in {"none", end}
    BY DEF AllAre, Participants
<1>2. \A s \in Seg : xact'[s][u] = xact[s][u]
    BY <1>1, OverStays
<1> QED
    BY <1>2 DEF AllAre, Participants

\* What is settled stays settled while the snapshot is in use.
LEMMA SettledStays ==
    ASSUME SnapshotInv, Next, NEW t \in Session, NEW u \in Session, due'[t] = due[t], unsure'[t] = unsure[t],
           Settled(t, u)
    PROVE  Settled(t, u)'
<1>1. Over(u) /\ qd'[u] = qd[u]
    BY OverStays DEF Settled
<1>2. AllAre(u, "aborted") => AllAre(u, "aborted")'
    BY <1>1, AllAreStays
<1> QED
    BY <1>1, <1>2 DEF Settled, Over, Dead

\* For a new snapshot everything that is over is settled.
LEMMA TakenSettled ==
    ASSUME SnapshotInv, NEW t \in Session, TakeSnapshot(t), NEW u \in Session, Over(u)
    PROVE  Settled(t, u)'
<1>1. qd[t] \in {"idle", "open"} /\ UNCHANGED xact
    BY TakeFacts
<1>2. qd'[u] = qd[u] /\ due'[t] = EndedCommits /\ unsure'[t] = Unresolved
    BY <1>1, TakeFacts DEF Over
<1>3. qd[u] = "ended" => AllAre(u, "committed")
    BY DEF SnapshotInv, PhaseInv
<1>4. u \in EndedCommits \/ u \in Unresolved \/ Dead(u)
    BY <1>3 DEF Over, EndedCommits, Unresolved, Dead
<1>5. AllAre(u, "aborted") => AllAre(u, "aborted")'
    BY <1>1 DEF AllAre, Participants
<1> QED
    BY <1>2, <1>4, <1>5 DEF Settled, Over, Dead

\* Snapshots know what has ended, and a horizon is settled for all of them.
LEMMA KnownStep ==
    ASSUME SnapshotInv, Next
    PROVE  KnownInv' /\ HorizonInv'
<1>t. TypeOK /\ GxidInv /\ PhaseInv /\ XidInv /\ LiveInv /\ KnownInv /\ HorizonInv
    BY DEF SnapshotInv
<1>u. /\ qd \in [Session -> QdState]
      /\ latestCompletedGxid \in Nat /\ nextGxid \in Nat
      /\ gxid \in [Session -> Nat]
      /\ \A t \in Session : xminDS[t] \in Nat
      /\ \A t \in Session : ds[t] # NoSnap => ds[t].xmax \in Nat /\ ds[t].xminAll \in Nat
  <2>1. \A t \in Session : ds[t] # NoSnap => ds[t] \in DistributedSnapshot
      BY <1>t DEF TypeOK
  <2> QED
      BY <1>t, <2>1 DEF TypeOK, DistributedSnapshot
<1>k. \A t, u \in Session :
        ds[t] # NoSnap =>
            /\ u \in due[t] => Over(u) /\ AllAre(u, "committed") /\ Visible(t, gxid[u])
            /\ Counts(u) /\ gxid[u] < xminDS[t] => Settled(t, u)
            /\ Counts(u) /\ u # t /\ Visible(t, gxid[u]) => Settled(t, u)
    BY <1>t DEF KnownInv
<1>h. \A r, t, u \in Session :
        ds[r] # NoSnap /\ ds[t] # NoSnap /\ Counts(u) /\ gxid[u] < ds[t].xminAll => Settled(r, u)
    BY <1>t DEF HorizonInv
<1>o. \A u \in Session : Over(u) /\ AllAre(u, "committed") => Over(u)' /\ AllAre(u, "committed")'
    BY OverStays, AllAreStays DEF Over
\* Steps that take no snapshot and hand out no gxid.
<1>e. ASSUME UNCHANGED <<gxid, startGxid, due, unsure>>,
             \A t \in Session : ds'[t] # NoSnap => ds'[t] = ds[t] /\ xminDS'[t] = xminDS[t]
      PROVE  KnownInv' /\ HorizonInv'
  <2>1. \A t, u \in Session : /\ Settled(t, u) => Settled(t, u)'
                              /\ Over(u) /\ AllAre(u, "committed") => Over(u)' /\ AllAre(u, "committed")'
      BY <1>e, <1>o, SettledStays
  <2>2. \A u \in Session : Counts(u)' <=> Counts(u)
      BY <1>e DEF Counts
  <2>3. \A t, u \in Session : ds'[t] # NoSnap => (Visible(t, gxid[u])' <=> Visible(t, gxid[u]))
      BY <1>e DEF Visible
  <2>4. KnownInv'
      BY <1>k, <1>e, <2>1, <2>2, <2>3 DEF KnownInv
  <2>5. HorizonInv'
      BY <1>h, <1>e, <2>1, <2>2 DEF HorizonInv
  <2> QED
      BY <2>4, <2>5
<1>2. CASE CrashAndStartup
  <2>1. \A t \in Session : ds'[t] = NoSnap
      BY <1>2, CrashFacts
  <2> QED
      BY <2>1 DEF KnownInv, HorizonInv
<1>3. ASSUME NEW t \in Session, currentDtxActivate(t) PROVE KnownInv' /\ HorizonInv'
  <2>1. /\ qd[t] \in {"idle", "open"}
        /\ \A u \in Session : /\ qd'[u] = IF u = t THEN "open" ELSE qd[u]
                              /\ gxid'[u] = IF u = t THEN nextGxid ELSE gxid[u]
        /\ UNCHANGED <<startGxid, ds, xminDS, due, unsure, xact>>
      BY <1>u, <1>3 DEF currentDtxActivate, segVars
  <2>2. \A r, u \in Session : /\ Settled(r, u) => Settled(r, u)'
                              /\ Over(u) /\ AllAre(u, "committed") => Over(u)' /\ AllAre(u, "committed")'
      BY <1>o, <2>1, SettledStays
  <2>3. \A u \in Session : u # t => (Counts(u)' <=> Counts(u))
      BY <2>1 DEF Counts
  <2>4. \A r, u \in Session : u # t => (Visible(r, gxid[u])' <=> Visible(r, gxid[u]))
      BY <2>1 DEF Visible
  <2>5. ASSUME NEW r \in Session, ds[r] # NoSnap, Counts(t)'
        PROVE  ~ (nextGxid < ds[r].xmax) /\ ~ (nextGxid < xminDS[r]) /\ ~ (nextGxid < ds[r].xminAll)
    <3>1. nextGxid # startGxid
        BY <2>1, <2>5 DEF Counts
    <3>2. latestCompletedGxid < nextGxid
        BY <1>t, <1>u, <3>1 DEF GxidInv
    <3>3. /\ xminDS[r] <= latestCompletedGxid + 1
          /\ ds[r].xmax <= latestCompletedGxid + 1
          /\ ds[r].xminAll <= ds[r].xmax
        BY <1>t, <2>5 DEF LiveInv
    <3>4. xminDS[r] \in Nat /\ ds[r].xmax \in Nat /\ ds[r].xminAll \in Nat
        BY <1>u, <2>5
    <3> QED
        BY <1>u, <3>2, <3>3, <3>4
  <2>6. KnownInv'
    <3> SUFFICES ASSUME NEW r \in Session, NEW u \in Session, ds[r] # NoSnap
                 PROVE  /\ u \in due[r] => Over(u)' /\ AllAre(u, "committed")' /\ Visible(r, gxid[u])'
                        /\ Counts(u)' /\ gxid'[u] < xminDS[r] => Settled(r, u)'
                        /\ Counts(u)' /\ u # r /\ Visible(r, gxid[u])' => Settled(r, u)'
        BY <2>1 DEF KnownInv
    <3>1. CASE u # t
        BY <1>k, <2>1, <2>2, <2>3, <2>4, <3>1
    <3>2. CASE u = t
      <4>1. u \notin due[r]
          BY <1>k, <2>1, <3>2 DEF Over
      <4>2. Counts(u)' => ~ Visible(r, gxid[u])' /\ ~ (gxid'[u] < xminDS[r])
          BY <2>1, <2>5, <3>2 DEF Visible
      <4> QED
          BY <4>1, <4>2
    <3> QED
        BY <3>1, <3>2
  <2>7. HorizonInv'
    <3> SUFFICES ASSUME NEW r \in Session, NEW v \in Session, NEW u \in Session, ds[r] # NoSnap,
                        ds[v] # NoSnap, Counts(u)', gxid'[u] < ds[v].xminAll
                 PROVE  Settled(r, u)'
        BY <2>1 DEF HorizonInv
    <3>1. u # t
        BY <2>1, <2>5
    <3> QED
        BY <1>h, <2>1, <2>2, <2>3, <3>1
  <2> QED
      BY <2>6, <2>7
<1>4. ASSUME NEW t \in Session, TakeSnapshot(t) PROVE KnownInv' /\ HorizonInv'
  <2> DEFINE d == CreateDistributedSnapshot(t)
  <2>1. /\ d \in DistributedSnapshot
        /\ d.xmax = latestCompletedGxid + 1
        /\ d.inProgress = {g \in LiveGxids : g < d.xmax} \ {gxid[t]}
        /\ d.xmin # 0 /\ d.xmin <= d.xmax /\ d.xminAll <= d.xmax
        /\ \A g \in LiveGxids : g < d.xmax => d.xmin <= g /\ d.xminAll <= g
        /\ \A u \in Session : xminDS[u] # 0 => d.xminAll <= xminDS[u]
      BY <1>t, CreateFacts
  <2>2. /\ \A u \in Session : qd[u] # "recovering"
        /\ qd[t] \in {"idle", "open"}
        /\ UNCHANGED <<startGxid, gxid, xact>>
      BY <1>4, TakeFacts
  <2>3. \A u \in Session :
              /\ qd'[u] = IF u = t THEN "open" ELSE qd[u]
              /\ ds'[u] = IF u = t THEN d ELSE ds[u]
              /\ xminDS'[u] = IF u = t /\ xminDS[t] = 0 THEN d.xmin ELSE xminDS[u]
              /\ due'[u] = IF u = t THEN EndedCommits ELSE due[u]
              /\ unsure'[u] = IF u = t THEN Unresolved ELSE unsure[u]
      BY <1>4, TakeFacts
  <2> HIDE DEF d
  <2>4. d \in DistributedSnapshot => d.xmin \in Nat /\ d.xmax \in Nat /\ d.xminAll \in Nat
      BY DEF DistributedSnapshot
  <2>5. ASSUME NEW u \in Session, Counts(u), gxid[u] < d.xmax, gxid[u] \notin LiveGxids
        PROVE  Over(u)
    <3>1. gxid[u] # 0
        BY <2>5 DEF Counts
    <3>2. qd[u] \notin {"open", "onePhase", "committing"}
        BY <2>5, <3>1 DEF LiveGxids
    <3>3. qd[u] # "idle"
        BY <1>t, <3>1 DEF GxidInv
    <3> QED
        BY <1>u, <2>2, <3>2, <3>3 DEF QdState, Over
  <2>6. ASSUME NEW u \in Session, Over(u) PROVE Settled(t, u)'
      BY <1>4, <2>6, TakenSettled
  <2>7. ASSUME NEW u \in Session, Counts(u), gxid[u] < d.xmin \/ gxid[u] < d.xminAll
        PROVE  gxid[u] < d.xmax /\ gxid[u] \notin LiveGxids
    <3>1. gxid[u] \in Nat /\ d.xmin \in Nat /\ d.xmax \in Nat /\ d.xminAll \in Nat
        BY <1>u, <2>1, <2>4
    <3>2. gxid[u] < d.xmax
        BY <2>1, <2>7, <3>1
    <3>3. gxid[u] \in LiveGxids => d.xmin <= gxid[u] /\ d.xminAll <= gxid[u]
        BY <2>1, <3>2
    <3> QED
        BY <2>7, <3>1, <3>2, <3>3
  <2>8. \A r, u \in Session : r # t /\ Settled(r, u) => Settled(r, u)'
      BY <2>3, SettledStays
  <2>9. \A u \in Session : Counts(u)' <=> Counts(u)
      BY <2>2 DEF Counts
  <2>10. ASSUME NEW u \in Session, u \in EndedCommits
         PROVE  Over(u)' /\ AllAre(u, "committed")' /\ Visible(t, gxid[u])'
    <3>1. Over(u) /\ AllAre(u, "committed") /\ u # t /\ qd[u] \notin {"open", "onePhase", "committing"}
        BY <2>2, <2>10 DEF EndedCommits, Over
    <3>p. PICK s \in Seg : xact[s][u] # "none"
        BY <3>1 DEF AllAre, Participants
    <3>2. gxid[u] \in Nat /\ gxid[u] # 0 /\ gxid[u] <= latestCompletedGxid
        BY <1>t, <1>u, <3>1, <3>p DEF PhaseInv, GxidInv
    <3>3. gxid[u] < d.xmax
        BY <1>u, <2>1, <3>2
    <3>4. gxid[u] \notin LiveGxids
        BY <1>t, <3>1, <3>2 DEF LiveGxids, GxidInv
    <3>5. gxid[u] \notin d.inProgress
        BY <2>1, <3>4
    <3>6. Visible(t, gxid[u])'
        BY <2>2, <2>3, <3>3, <3>5 DEF Visible
    <3> QED
        BY <1>o, <3>1, <3>6
  <2>11. KnownInv'
    <3> SUFFICES ASSUME NEW r \in Session, NEW u \in Session, ds'[r] # NoSnap
                 PROVE  /\ u \in due'[r] => Over(u)' /\ AllAre(u, "committed")' /\ Visible(r, gxid[u])'
                        /\ Counts(u)' /\ gxid'[u] < xminDS'[r] => Settled(r, u)'
                        /\ Counts(u)' /\ u # r /\ Visible(r, gxid[u])' => Settled(r, u)'
        BY DEF KnownInv
    <3>1. CASE r # t
      <4>1. ds'[r] = ds[r] /\ xminDS'[r] = xminDS[r] /\ due'[r] = due[r] /\ gxid'[u] = gxid[u]
          BY <2>2, <2>3, <3>1
      <4>2. Visible(r, gxid[u])' <=> Visible(r, gxid[u])
          BY <4>1 DEF Visible
      <4> QED
          BY <1>k, <1>o, <2>8, <2>9, <3>1, <4>1, <4>2
    <3>2. CASE r = t
      <4>1. u \in due'[r] => Over(u)' /\ AllAre(u, "committed")' /\ Visible(r, gxid[u])'
          BY <2>3, <2>10, <3>2
      <4>2. ASSUME Counts(u), gxid[u] < xminDS'[t] PROVE Over(u)
        <5>1. CASE xminDS[t] = 0
            BY <2>3, <2>5, <2>7, <4>2, <5>1
        <5>2. CASE xminDS[t] # 0
          <6>1. ds[t] # NoSnap
              BY <1>t, <5>2 DEF LiveInv
          <6>2. xminDS'[t] = xminDS[t]
              BY <2>3, <5>2
          <6> QED
              BY <1>k, <4>2, <6>1, <6>2 DEF Settled
        <5> QED
            BY <5>1, <5>2
      <4>3. ASSUME Counts(u), u # t, Visible(t, gxid[u])' PROVE Over(u)
        <5>1. gxid[u] < d.xmax /\ gxid[u] \notin d.inProgress
            BY <2>2, <2>3, <4>3 DEF Visible
        <5>2. gxid[u] # gxid[t]
            BY <1>t, <4>3 DEF GxidInv, Counts
        <5>3. gxid[u] \notin LiveGxids
            BY <2>1, <5>1, <5>2
        <5> QED
            BY <2>5, <4>3, <5>1, <5>3
      <4>4. gxid'[u] = gxid[u]
          BY <2>2
      <4> QED
          BY <2>6, <2>9, <3>2, <4>1, <4>2, <4>3, <4>4
    <3> QED
        BY <3>1, <3>2
  <2>12. HorizonInv'
    <3> SUFFICES ASSUME NEW r \in Session, NEW v \in Session, NEW u \in Session, ds'[r] # NoSnap,
                        ds'[v] # NoSnap, Counts(u), gxid[u] < ds'[v].xminAll
                 PROVE  Settled(r, u)'
        BY <2>2, <2>9 DEF HorizonInv
    <3>1. CASE v # t
      <4>1. ds'[v] = ds[v]
          BY <2>3, <3>1
      <4>2. Settled(v, u) /\ Over(u)
          BY <1>h, <4>1 DEF Settled
      <4>3. CASE r # t
          BY <1>h, <2>3, <2>8, <4>1, <4>3
      <4> QED
          BY <2>6, <4>2, <4>3
    <3>2. CASE v = t
      <4>1. gxid[u] < d.xminAll
          BY <2>3, <3>2
      <4>2. Over(u)
          BY <2>5, <2>7, <4>1
      <4>3. CASE r # t
        <5>1. ds[r] # NoSnap
            BY <2>3, <4>3
        <5>2. xminDS[r] # 0 /\ xminDS[r] \in Nat
            BY <1>t, <1>u, <5>1 DEF LiveInv
        <5>3. d.xminAll <= xminDS[r]
            BY <2>1, <5>2
        <5>4. gxid[u] < xminDS[r]
            BY <1>u, <2>1, <2>4, <4>1, <5>2, <5>3
        <5> QED
            BY <1>k, <2>8, <4>3, <5>1, <5>4
      <4> QED
          BY <2>6, <4>2, <4>3
    <3> QED
        BY <3>1, <3>2
  <2> QED
      BY <2>11, <2>12
<1>5. ASSUME NEW t \in Session, Begin(t) \/ RecoverCommitted(t) PROVE KnownInv' /\ HorizonInv'
  <2>1. UNCHANGED <<gxid, startGxid, due, unsure, ds, xminDS>>
      BY <1>5 DEF Begin, StartCommit, RecoverCommitted
  <2> QED
      BY <1>e, <2>1
<1>6. ASSUME NEW t \in Session, NEW state \in {"ended", "lost", "aborted"}, Finish(t, state)
      PROVE  KnownInv' /\ HorizonInv'
  <2>1. /\ UNCHANGED <<gxid, startGxid, due, unsure>>
        /\ \A u \in Session : /\ ds'[u] = IF u = t THEN NoSnap ELSE ds[u]
                              /\ xminDS'[u] = IF u = t THEN 0 ELSE xminDS[u]
      BY <1>6, FinishFacts
  <2>2. \A u \in Session : ds'[u] # NoSnap => ds'[u] = ds[u] /\ xminDS'[u] = xminDS[u]
      BY <2>1
  <2> QED
      BY <1>e, <2>1, <2>2
<1>7. UNCHANGED qdVars => KnownInv' /\ HorizonInv'
    BY <1>e DEF qdVars
<1> QED
    BY <1>t, <1>2, <1>3, <1>4, <1>5, <1>6, <1>7, StepCases, SegmentSteps

\* Who has left the ProcArray of a segment does not come back.
LEMMA LeftProcArray ==
    ASSUME SnapshotInv, Next, NEW s \in Seg, NEW u \in Session, xid[s][u] # 0, ~ InProcArray(s, u)
    PROVE  ~ InProcArray(s, u)' /\ xid'[s][u] = xid[s][u]
<1>t. TypeOK /\ XidInv /\ LiveInv /\ PhaseInv
    BY DEF SnapshotInv
<1>u. /\ xact \in [Seg -> [Session -> XactState]]
      /\ xid \in [Seg -> [Session -> Nat]]
    BY <1>t DEF TypeOK
<1>1. xact[s][u] \in {"committed", "aborted"}
    BY <1>t, <1>u DEF PhaseInv, InProcArray, XactState
<1>2. xact'[s][u] = xact[s][u]
    BY <1>1, OverStays
<1>3. xid'[s][u] = xid[s][u]
  <2>1. CASE CrashAndStartup
      BY <2>1, CrashFacts
  <2>2. ASSUME NEW t \in Session, \/ currentDtxActivate(t) \/ TakeSnapshot(t) \/ Begin(t) \/ RecoverCommitted(t)
                                  \/ \E state \in {"ended", "lost", "aborted"} : Finish(t, state)
        PROVE  UNCHANGED xid
      BY <2>2 DEF currentDtxActivate, TakeSnapshot, SnapshotFor, Begin, StartCommit, Finish, RecoverCommitted, segVars
  <2>3. ASSUME NEW t \in Session, NEW r \in Seg, AssignXid(t, r)
        PROVE  xid'[s][u] = xid[s][u]
      BY <1>u, <1>1, <2>3 DEF AssignXid
  <2>4. ASSUME NEW t \in Session, NEW r \in Seg,
               \/ Move(t, r) \/ GetSnapshotData(t, r) \/ MakeReady(t, r)
               \/ \E v \in Session : SetIgnoreHint(t, r, v)
        PROVE  UNCHANGED xid
      BY <2>4 DEF Move, SetCommittedTree, CommitTree, ProcArrayRemove, CommitStep, AbortOnSegment,
                  GetSnapshotData, MakeReady, SetIgnoreHint
  <2> QED
      BY <1>t, <2>1, <2>2, <2>3, <2>4, StepCases
<1> QED
    BY <1>1, <1>2, <1>3 DEF InProcArray

\* A local snapshot keeps to the distributed one it was taken under.
LEMMA LocalStep ==
    ASSUME SnapshotInv, Next
    PROVE  LocalInv'
<1>t. TypeOK /\ PhaseInv /\ XidInv /\ LiveInv /\ KnownInv /\ LocalInv
    BY DEF SnapshotInv
<1>u. /\ ls \in [Seg -> [Session -> LocalSnapshot \cup {NoSnap}]]
      /\ xid \in [Seg -> [Session -> Nat]]
      /\ \A s \in Seg : /\ latestCompletedXid[s] \in Nat /\ nextXid[s] \in Nat
                        /\ latestCompletedXid[s] < nextXid[s]
      /\ \A s \in Seg, t \in Session : ls[s][t] # NoSnap =>
            ls[s][t] \in LocalSnapshot /\ ls[s][t].xmin \in Nat /\ ls[s][t].xmax \in Nat
  <2>1. \A s \in Seg, t \in Session : ls[s][t] # NoSnap => ls[s][t] \in LocalSnapshot
      BY <1>t DEF TypeOK
  <2> QED
      BY <1>t, <2>1 DEF TypeOK, LocalSnapshot
<1>l. \A s \in Seg, t \in Session :
        ls[s][t] # NoSnap =>
            /\ ls[s][t].globalxmin <= ls[s][t].xmin
            /\ ls[s][t].xmin <= ls[s][t].xmax
            /\ ls[s][t].xmax <= latestCompletedXid[s] + 1
            /\ \A u \in Session :
                  /\ u \in due[t] => xid[s][u] < ls[s][t].xmax /\ xid[s][u] \notin ls[s][t].xip
                  /\ xid[s][u] # 0 /\ xid[s][u] < ls[s][t].xmin => ~ InProcArray(s, u)
    BY <1>t DEF LocalInv
\* A snapshot that stays in use.
<1>e. ASSUME NEW s \in Seg, NEW t \in Session, ls[s][t] # NoSnap, due'[t] = due[t],
             latestCompletedXid'[s] \in Nat, latestCompletedXid[s] <= latestCompletedXid'[s],
             \A u \in Session : \/ xid'[s][u] = xid[s][u]
                                \/ xid'[s][u] = nextXid[s] /\ u \notin due[t],
             ls'[s][t].xmin = ls[s][t].xmin, ls'[s][t].xmax = ls[s][t].xmax,
             ls'[s][t].xip = ls[s][t].xip, ls'[s][t].globalxmin = ls[s][t].globalxmin
      PROVE  /\ ls'[s][t].globalxmin <= ls'[s][t].xmin
             /\ ls'[s][t].xmin <= ls'[s][t].xmax
             /\ ls'[s][t].xmax <= latestCompletedXid'[s] + 1
             /\ \A u \in Session :
                   /\ u \in due'[t] => xid'[s][u] < ls'[s][t].xmax /\ xid'[s][u] \notin ls'[s][t].xip
                   /\ xid'[s][u] # 0 /\ xid'[s][u] < ls'[s][t].xmin => ~ InProcArray(s, u)'
  <2>1. ls[s][t].xmax \in Nat /\ ls[s][t].xmin \in Nat /\ latestCompletedXid[s] \in Nat /\ nextXid[s] \in Nat
      BY <1>u, <1>e
  <2>2. /\ ls[s][t].xmax <= latestCompletedXid[s] + 1
        /\ ls[s][t].xmin <= ls[s][t].xmax
        /\ latestCompletedXid[s] < nextXid[s]
      BY <1>u, <1>l, <1>e
  <2>3. ls[s][t].xmax <= latestCompletedXid'[s] + 1
      BY <1>e, <2>1, <2>2
  <2>4. ASSUME NEW u \in Session, xid'[s][u] # 0, xid'[s][u] < ls[s][t].xmin
        PROVE  ~ InProcArray(s, u)'
    <3>1. xid'[s][u] = xid[s][u]
        BY <1>e, <2>1, <2>2, <2>4
    <3>2. ~ InProcArray(s, u)
        BY <1>l, <1>e, <2>4, <3>1
    <3> QED
        BY <2>4, <3>1, <3>2, LeftProcArray
  <2> QED
      BY <1>l, <1>e, <2>3, <2>4
<1>n. \A s \in Seg : latestCompletedXid[s] <= latestCompletedXid[s]
    BY <1>u
\* Steps that take no snapshot on a segment.
<1>f. ASSUME UNCHANGED xid,
             \A s \in Seg : latestCompletedXid'[s] \in Nat /\ latestCompletedXid[s] <= latestCompletedXid'[s],
             \A s \in Seg, t \in Session : ls'[s][t] # NoSnap => ls'[s][t] = ls[s][t] /\ due'[t] = due[t]
      PROVE  LocalInv'
    BY <1>e, <1>f DEF LocalInv
<1>2. CASE CrashAndStartup
  <2>1. /\ UNCHANGED <<xid, latestCompletedXid>>
        /\ \A s \in Seg, t \in Session : ls'[s][t] = NoSnap
      BY <1>2, CrashFacts
  <2> QED
      BY <1>u, <1>n, <1>f, <2>1
<1>3. ASSUME NEW t \in Session, currentDtxActivate(t) \/ Begin(t) \/ RecoverCommitted(t) PROVE LocalInv'
  <2>1. UNCHANGED <<xid, latestCompletedXid, ls, due>>
      BY <1>3 DEF currentDtxActivate, Begin, StartCommit, RecoverCommitted, segVars
  <2> QED
      BY <1>u, <1>n, <1>f, <2>1
<1>4. ASSUME NEW t \in Session, TakeSnapshot(t) PROVE LocalInv'
  <2>1. /\ UNCHANGED <<xid, latestCompletedXid>>
        /\ \A u \in Session : /\ due'[u] = IF u = t THEN EndedCommits ELSE due[u]
                              /\ \A s \in Seg : ls'[s][u] = IF u = t THEN NoSnap ELSE ls[s][u]
      BY <1>4, TakeFacts
  <2> QED
      BY <1>u, <1>n, <1>f, <2>1
<1>5. ASSUME NEW t \in Session, NEW state \in {"ended", "lost", "aborted"}, Finish(t, state) PROVE LocalInv'
  <2>1. /\ UNCHANGED <<xid, latestCompletedXid, due>>
        /\ \A u \in Session : \A s \in Seg : ls'[s][u] = IF u = t THEN NoSnap ELSE ls[s][u]
      BY <1>5, FinishFacts
  <2> QED
      BY <1>u, <1>n, <1>f, <2>1
<1>7. ASSUME NEW v \in Session, NEW r \in Seg, AssignXid(v, r) PROVE LocalInv'
  <2>1. /\ qd[v] = "open"
        /\ UNCHANGED <<latestCompletedXid, ls, due>>
        /\ \A s \in Seg, u \in Session :
              xid'[s][u] = IF s = r /\ u = v THEN nextXid[r] ELSE xid[s][u]
      BY <1>u, <1>7 DEF AssignXid, qdVars
  <2>2. \A t \in Session : ds[t] # NoSnap => v \notin due[t]
      BY <1>t, <2>1 DEF KnownInv, Over
  <2>3. \A s \in Seg, t \in Session : ls[s][t] # NoSnap => ds[t] # NoSnap
      BY <1>t DEF LiveInv
  <2> SUFFICES ASSUME NEW s \in Seg, NEW t \in Session, ls[s][t] # NoSnap
               PROVE  /\ ls'[s][t].globalxmin <= ls'[s][t].xmin
                      /\ ls'[s][t].xmin <= ls'[s][t].xmax
                      /\ ls'[s][t].xmax <= latestCompletedXid'[s] + 1
                      /\ \A u \in Session :
                            /\ u \in due'[t] => xid'[s][u] < ls'[s][t].xmax /\ xid'[s][u] \notin ls'[s][t].xip
                            /\ xid'[s][u] # 0 /\ xid'[s][u] < ls'[s][t].xmin => ~ InProcArray(s, u)'
      BY <2>1 DEF LocalInv
  <2>4. \A u \in Session : \/ xid'[s][u] = xid[s][u]
                           \/ xid'[s][u] = nextXid[s] /\ u \notin due[t]
      BY <2>1, <2>2, <2>3
  <2>5. latestCompletedXid'[s] \in Nat /\ latestCompletedXid[s] <= latestCompletedXid'[s]
      BY <1>u, <1>n, <2>1
  <2> QED
      BY <1>e, <2>1, <2>4, <2>5
<1>8. ASSUME NEW t \in Session, NEW s \in Seg, Move(t, s) PROVE LocalInv'
  <2>1. /\ UNCHANGED <<qdVars, xid, ls>>
        /\ \A r \in Seg : latestCompletedXid'[r] \in Nat /\ latestCompletedXid[r] <= latestCompletedXid'[r]
      BY <1>t, <1>8, MoveFacts
  <2>2. UNCHANGED due
      BY <2>1 DEF qdVars
  <2> QED
      BY <1>f, <2>1, <2>2
<1>9. ASSUME NEW t \in Session, NEW s \in Seg, \E u \in Session : SetIgnoreHint(t, s, u) PROVE LocalInv'
  <2>1. UNCHANGED <<xid, latestCompletedXid, ls, due>>
      BY <1>9 DEF SetIgnoreHint, qdVars
  <2> QED
      BY <1>u, <1>n, <1>f, <2>1
<1>10. ASSUME NEW v \in Session, NEW r \in Seg, MakeReady(v, r) PROVE LocalInv'
  <2>1. UNCHANGED <<xid, latestCompletedXid, due>> /\ ls[r][v] # NoSnap
      BY <1>10 DEF MakeReady, qdVars
  <2>2. ls' = [ls EXCEPT ![r] = [ls[r] EXCEPT ![v] = [ls[r][v] EXCEPT !.ready = TRUE]]]
      BY <1>u, <1>10 DEF MakeReady
  <2>3. \A s \in Seg, t \in Session : ls'[s][t] = IF s = r /\ t = v THEN [ls[r][v] EXCEPT !.ready = TRUE] ELSE ls[s][t]
      BY <1>u, <2>2
  <2>4. ls[r][v] \in LocalSnapshot
      BY <1>u, <2>1
  <2> SUFFICES ASSUME NEW s \in Seg, NEW t \in Session, ls'[s][t] # NoSnap
               PROVE  /\ ls'[s][t].globalxmin <= ls'[s][t].xmin
                      /\ ls'[s][t].xmin <= ls'[s][t].xmax
                      /\ ls'[s][t].xmax <= latestCompletedXid'[s] + 1
                      /\ \A u \in Session :
                            /\ u \in due'[t] => xid'[s][u] < ls'[s][t].xmax /\ xid'[s][u] \notin ls'[s][t].xip
                            /\ xid'[s][u] # 0 /\ xid'[s][u] < ls'[s][t].xmin => ~ InProcArray(s, u)'
      BY DEF LocalInv
  <2>5. ls[s][t] # NoSnap
      BY <2>1, <2>3
  <2>6. /\ ls'[s][t].xmin = ls[s][t].xmin /\ ls'[s][t].xmax = ls[s][t].xmax
        /\ ls'[s][t].xip = ls[s][t].xip /\ ls'[s][t].globalxmin = ls[s][t].globalxmin
      BY <2>3, <2>4 DEF LocalSnapshot
  <2>7. latestCompletedXid'[s] \in Nat /\ latestCompletedXid[s] <= latestCompletedXid'[s]
      BY <1>u, <1>n, <2>1
  <2> QED
      BY <1>e, <2>1, <2>5, <2>6, <2>7
<1>11. ASSUME NEW v \in Session, NEW r \in Seg, GetSnapshotData(v, r) PROVE LocalInv'
  <2>1. /\ UNCHANGED <<xid, xact, latestCompletedXid, due>>
        /\ ds[v] # NoSnap
      BY <1>11 DEF GetSnapshotData, qdVars
  <2>2. PICK l \in LocalSnapshot :
              /\ ls' = [ls EXCEPT ![r][v] = l]
              /\ l.xmax = latestCompletedXid[r] + 1
              /\ l.xmin <= l.xmax
              /\ l.globalxmin <= l.xmin
              /\ \A u \in Session : xid[r][u] \in l.xip => \E w \in Session : InProcArray(r, w) /\ xid[r][w] = xid[r][u]
              /\ \A u \in Session : xid[r][u] # 0 /\ xid[r][u] < l.xmin => ~ InProcArray(r, u)
      BY <1>t, <1>11, LocalSnapshotFacts
  <2>3. \A s \in Seg, t \in Session : ls'[s][t] = IF s = r /\ t = v THEN l ELSE ls[s][t]
      BY <1>u, <2>2
  <2>4. \A s \in Seg, u \in Session : InProcArray(s, u)' <=> InProcArray(s, u)
      BY <2>1 DEF InProcArray
  <2>5. ASSUME NEW u \in Session, u \in due[v]
        PROVE  xid[r][u] < l.xmax /\ xid[r][u] \notin l.xip
    <3>1. AllAre(u, "committed")
        BY <1>t, <2>1, <2>5 DEF KnownInv
    <3>2. xact[r][u] \in {"none", "committed"}
        BY <3>1 DEF AllAre, Participants
    <3>3. xid[r][u] <= latestCompletedXid[r]
      <4>1. CASE xact[r][u] = "none"
        <5>1. xid[r][u] = 0
            BY <1>t, <4>1 DEF PhaseInv
        <5> QED
            BY <1>u, <5>1
      <4>2. CASE xact[r][u] = "committed"
          BY <1>t, <4>2 DEF XidInv
      <4> QED
          BY <3>2, <4>1, <4>2
    <3>4. ~ InProcArray(r, u)
        BY <3>2 DEF InProcArray
    <3>5. \A w \in Session : InProcArray(r, w) => xid[r][w] # 0
        BY <1>t DEF InProcArray, PhaseInv
    <3>6. xid[r][u] \notin l.xip
      <4> SUFFICES ASSUME xid[r][u] \in l.xip PROVE FALSE
          OBVIOUS
      <4>1. PICK w \in Session : InProcArray(r, w) /\ xid[r][w] = xid[r][u]
          BY <2>2
      <4>2. w = u
          BY <1>t, <3>5, <4>1 DEF XidInv
      <4> QED
          BY <3>4, <4>1, <4>2
    <3>7. xid[r][u] \in Nat
        BY <1>u
    <3> QED
        BY <1>u, <2>2, <3>3, <3>6, <3>7
  <2>6. l.xmax <= latestCompletedXid[r] + 1
      BY <1>u, <2>2
  <2> QED
      BY <1>l, <2>1, <2>2, <2>3, <2>4, <2>5, <2>6 DEF LocalInv
<1> QED
    BY <1>t, <1>2, <1>3, <1>4, <1>5, <1>7, <1>8, <1>9, <1>10, <1>11, StepCases

\* oldestXmin and the hints pass a transaction only when all snapshots see it.
LEMMA ForgottenStep ==
    ASSUME SnapshotInv, Next
    PROVE  ForgottenInv'
<1>t. TypeOK /\ GxidInv /\ PhaseInv /\ XidInv /\ LiveInv /\ KnownInv /\ HorizonInv /\ LocalInv /\ ForgottenInv
    BY DEF SnapshotInv
<1>u. /\ qd \in [Session -> QdState]
      /\ xact \in [Seg -> [Session -> XactState]]
      /\ xid \in [Seg -> [Session -> Nat]]
      /\ oldestXmin \in [Seg -> Nat]
      /\ ignored \in [Seg -> SUBSET Session]
      /\ gxid \in [Session -> Nat]
      /\ nextXid \in [Seg -> Nat]
    BY <1>t DEF TypeOK
<1> DEFINE Past(s, u) == xid[s][u] # 0 /\ (xid[s][u] < oldestXmin'[s] \/ u \in ignored[s])
\* oldestXmin moves only past what all snapshots agree on.
<1>a. ASSUME NEW s \in Seg, NEW u \in Session, Past(s, u), Counts(u), xact[s][u] # "aborted"
      PROVE  Agreed(u)
  <2>1. CASE Forgotten(s, u)
      BY <1>t, <1>a, <2>1 DEF ForgottenInv
  <2>2. CASE ~ Forgotten(s, u)
    <3>1. ~ (xid[s][u] < oldestXmin[s]) /\ xid[s][u] < oldestXmin'[s]
        BY <1>a, <2>2 DEF Forgotten
    <3>2. PICK t \in Session, r \in Seg : FinishSnapshot(t, r)
        BY <3>1, OldestCases
    <3>3. PICK o \in Nat :
              /\ oldestXmin' = [oldestXmin EXCEPT ![r] = o]
              /\ \A v \in Session : xid[r][v] < o =>
                    \/ xid[r][v] < oldestXmin[r]
                    \/ /\ xid[r][v] < ls[r][t].xmin
                       /\ DistributedLogEntry(r, v) < ds[t].xminAll
        BY <3>2, AdvanceFacts
    <3>4. r = s /\ oldestXmin'[s] = o
        BY <1>u, <3>1, <3>3
    <3>5. xid[s][u] < ls[s][t].xmin /\ DistributedLogEntry(s, u) < ds[t].xminAll
        BY <3>1, <3>3, <3>4
    <3>6. ls[s][t] # NoSnap /\ ds[t] # NoSnap
        BY <1>t, <3>2, <3>4 DEF FinishSnapshot, LiveInv
    <3>7. ~ InProcArray(s, u)
        BY <1>t, <1>a, <3>5, <3>6 DEF LocalInv
    <3>8. xact[s][u] = "committed"
        BY <1>t, <1>u, <1>a, <3>7 DEF InProcArray, PhaseInv, XactState
    <3>9. gxid[u] < ds[t].xminAll
        BY <3>5, <3>8 DEF DistributedLogEntry
    <3>10. \A w \in Session : ds[w] # NoSnap => Settled(w, u)
        BY <1>t, <1>a, <3>6, <3>9 DEF HorizonInv
    <3> QED
        BY <3>6, <3>10 DEF Agreed, Settled
  <2> QED
      BY <2>1, <2>2
\* Who is agreed on stays so for the snapshots that stay.
<1>g. ASSUME NEW u \in Session, Agreed(u),
             \A t \in Session : ds'[t] # NoSnap => ds'[t] = ds[t] /\ due'[t] = due[t] /\ unsure'[t] = unsure[t]
      PROVE  Agreed(u)'
  <2>1. (Over(u) \/ qd[u] = "recovering") => (Over(u)' \/ qd'[u] = "recovering")
      BY OverStays DEF Over
  <2>2. \A t \in Session : ds'[t] # NoSnap => Settled(t, u)'
      BY <1>g, SettledStays DEF Agreed
  <2> QED
      BY <1>g, <2>1, <2>2 DEF Agreed
\* Steps that leave the coordinator's snapshots alone, or drop them.
<1>e. ASSUME UNCHANGED <<gxid, startGxid, due, unsure, xid, ignored>>,
             \A t \in Session : ds'[t] # NoSnap => ds'[t] = ds[t]
      PROVE  ForgottenInv'
  <2> SUFFICES ASSUME NEW s \in Seg, NEW u \in Session, Forgotten(s, u)', Counts(u)', xact'[s][u] # "aborted"
               PROVE  Agreed(u)'
      BY DEF ForgottenInv
  <2>1. Past(s, u) /\ Counts(u)
      BY <1>e DEF Forgotten, Counts
  <2>2. xact[s][u] # "aborted"
      BY OverStays
  <2>3. Agreed(u)
      BY <1>a, <2>1, <2>2
  <2> QED
      BY <1>e, <1>g, <2>3
<1>2. CASE CrashAndStartup
  <2> SUFFICES ASSUME NEW s \in Seg, NEW u \in Session, Forgotten(s, u)'
               PROVE  Agreed(u)'
      BY DEF ForgottenInv
  <2>1. /\ UNCHANGED xid
        /\ \A t \in Session :
              /\ qd'[t] = IF qd[t] = "open" THEN "aborted"
                          ELSE IF qd[t] = "onePhase" THEN "lost"
                          ELSE IF qd[t] = "committing" THEN "recovering" ELSE qd[t]
              /\ ds'[t] = NoSnap
      BY <1>2, CrashFacts
  <2>2. xid[s][u] # 0
      BY <2>1 DEF Forgotten
  <2>3. qd[u] # "idle"
      BY <1>t, <2>2 DEF PhaseInv
  <2>4. Over(u)' \/ qd'[u] = "recovering"
      BY <1>u, <2>1, <2>3 DEF Over, QdState
  <2> QED
      BY <2>1, <2>4 DEF Agreed
<1>3. ASSUME NEW t \in Session, currentDtxActivate(t) PROVE ForgottenInv'
  <2> SUFFICES ASSUME NEW s \in Seg, NEW u \in Session, Forgotten(s, u)', Counts(u)', xact'[s][u] # "aborted"
               PROVE  Agreed(u)'
      BY DEF ForgottenInv
  <2>1. /\ gxid[t] = 0
        /\ \A v \in Session : /\ qd'[v] = IF v = t THEN "open" ELSE qd[v]
                              /\ gxid'[v] = IF v = t THEN nextGxid ELSE gxid[v]
        /\ UNCHANGED <<startGxid, ds, due, unsure, xact, xid, oldestXmin, ignored>>
      BY <1>u, <1>3 DEF currentDtxActivate, segVars
  <2>2. Past(s, u) /\ xid[s][u] # 0
      BY <2>1 DEF Forgotten
  <2>3. gxid[u] # 0
      BY <1>t, <2>2 DEF PhaseInv
  <2>4. u # t /\ Counts(u)
      BY <2>1, <2>3 DEF Counts
  <2>5. Agreed(u)
      BY <1>a, <2>1, <2>2, <2>4
  <2> QED
      BY <1>g, <2>1, <2>5
<1>4. ASSUME NEW t \in Session, TakeSnapshot(t) PROVE ForgottenInv'
  <2> SUFFICES ASSUME NEW s \in Seg, NEW u \in Session, Forgotten(s, u)', Counts(u)', xact'[s][u] # "aborted"
               PROVE  Agreed(u)'
      BY DEF ForgottenInv
  <2>1. /\ \A v \in Session : qd[v] # "recovering"
        /\ qd[t] \in {"idle", "open"}
        /\ UNCHANGED <<startGxid, gxid, xact, xid, oldestXmin, ignored>>
        /\ \A v \in Session :
              /\ v # t => ds'[v] = ds[v] /\ due'[v] = due[v] /\ unsure'[v] = unsure[v]
              /\ v = t => due'[v] = EndedCommits /\ unsure'[v] = Unresolved
      BY <1>4, TakeFacts
  <2>2. Past(s, u) /\ xid[s][u] # 0 /\ Counts(u)
      BY <2>1 DEF Forgotten, Counts
  <2>3. Agreed(u) /\ Over(u)
      BY <1>a, <2>1, <2>2 DEF Agreed
  <2>4. Over(u)'
      BY <2>3, OverStays DEF Over
  <2>5. Settled(t, u)'
      BY <1>4, <2>3, TakenSettled
  <2>6. \A v \in Session : v # t /\ ds'[v] # NoSnap => Settled(v, u)'
      BY <2>1, <2>3, SettledStays DEF Agreed
  <2> QED
      BY <2>4, <2>5, <2>6 DEF Agreed
<1>5. ASSUME NEW t \in Session, Begin(t) \/ RecoverCommitted(t) PROVE ForgottenInv'
  <2>1. UNCHANGED <<gxid, startGxid, due, unsure, xid, ignored, ds>>
      BY <1>5 DEF Begin, StartCommit, RecoverCommitted, segVars
  <2> QED
      BY <1>e, <2>1
<1>6. ASSUME NEW t \in Session, NEW state \in {"ended", "lost", "aborted"}, Finish(t, state)
      PROVE  ForgottenInv'
  <2>1. /\ UNCHANGED <<gxid, startGxid, due, unsure, xid, ignored>>
        /\ \A u \in Session : ds'[u] = IF u = t THEN NoSnap ELSE ds[u]
      BY <1>6, FinishFacts
  <2> QED
      BY <1>e, <2>1
<1>7. ASSUME NEW t \in Session, NEW s \in Seg, Move(t, s) \/ GetSnapshotData(t, s) \/ MakeReady(t, s)
      PROVE  ForgottenInv'
  <2>1. UNCHANGED <<qdVars, xid, ignored>>
      BY <1>7 DEF Move, SetCommittedTree, CommitTree, ProcArrayRemove, CommitStep, AbortOnSegment,
                  GetSnapshotData, MakeReady
  <2>2. UNCHANGED <<gxid, startGxid, due, unsure, ds, qd>>
      BY <2>1 DEF qdVars
  <2> QED
      BY <1>e, <2>1, <2>2
<1>8. ASSUME NEW t \in Session, NEW r \in Seg, AssignXid(t, r) PROVE ForgottenInv'
  <2> SUFFICES ASSUME NEW s \in Seg, NEW u \in Session, Forgotten(s, u)', Counts(u)', xact'[s][u] # "aborted"
               PROVE  Agreed(u)'
      BY DEF ForgottenInv
  <2>1. /\ xact[r][t] = "none"
        /\ \A q \in Seg, v \in Session :
              /\ xact'[q][v] = IF q = r /\ v = t THEN "running" ELSE xact[q][v]
              /\ xid'[q][v] = IF q = r /\ v = t THEN nextXid[r] ELSE xid[q][v]
        /\ UNCHANGED <<qd, gxid, startGxid, ds, due, unsure, oldestXmin, ignored>>
      BY <1>u, <1>8 DEF AssignXid, qdVars
  <2>2. Counts(u)
      BY <2>1 DEF Counts
  <2>3. CASE s # r \/ u # t
    <3>1. Past(s, u) /\ xact[s][u] # "aborted"
        BY <2>1, <2>3 DEF Forgotten
    <3>2. Agreed(u)
        BY <1>a, <2>2, <3>1
    <3> QED
        BY <1>g, <2>1, <3>2
  <2>4. CASE s = r /\ u = t
    <3>1. xid[s][u] = 0
        BY <1>t, <2>1, <2>4 DEF PhaseInv
    <3>2. u \notin ignored[s]
        BY <1>t, <3>1 DEF XidInv
    <3>3. nextXid[s] < oldestXmin[s]
        BY <2>1, <2>4, <3>2 DEF Forgotten
    <3>4. oldestXmin[s] <= nextXid[s] /\ oldestXmin[s] \in Nat /\ nextXid[s] \in Nat
        BY <1>t, <1>u DEF XidInv
    <3> QED
        BY <3>3, <3>4
  <2> QED
      BY <2>3, <2>4
<1>9. ASSUME NEW t \in Session, NEW r \in Seg, NEW w \in Session, SetIgnoreHint(t, r, w) PROVE ForgottenInv'
  <2> SUFFICES ASSUME NEW s \in Seg, NEW u \in Session, Forgotten(s, u)', Counts(u)', xact'[s][u] # "aborted"
               PROVE  Agreed(u)'
      BY DEF ForgottenInv
  <2>1. /\ UNCHANGED <<qd, gxid, startGxid, ds, due, unsure, xact, xid, oldestXmin>>
        /\ \A q \in Seg : ignored'[q] = IF q = r THEN ignored[q] \cup {w} ELSE ignored[q]
        /\ ls[r][t] # NoSnap
        /\ CommittedTest(t, r, w) = "IGNORE"
      BY <1>u, <1>9 DEF SetIgnoreHint, qdVars
  <2>2. Counts(u)
      BY <2>1 DEF Counts
  <2> SUFFICES Agreed(u)
      BY <1>g, <2>1
  <2>3. CASE Past(s, u)
      BY <1>a, <2>1, <2>2, <2>3
  <2>4. CASE ~ Past(s, u)
    <3>1. s = r /\ u = w
        BY <2>1, <2>4 DEF Forgotten
    <3>2. DistributedLogEntry(s, u) # 0 /\ DistributedLogEntry(s, u) < ds[t].xminAll
        BY <2>1, <3>1 DEF CommittedTest
    <3>3. xact[s][u] \in {"distlog", "clog", "committed"} /\ gxid[u] < ds[t].xminAll
        BY <3>2 DEF DistributedLogEntry
    <3>4. ds[t] # NoSnap
        BY <1>t, <2>1 DEF LiveInv
    <3>5. \A v \in Session : ds[v] # NoSnap => Settled(v, u)
        BY <1>t, <2>2, <3>3, <3>4 DEF HorizonInv
    <3> QED
        BY <3>4, <3>5 DEF Settled, Agreed
  <2> QED
      BY <2>3, <2>4
<1> QED
    BY <1>t, <1>2, <1>3, <1>4, <1>5, <1>6, <1>7, <1>8, <1>9, StepCases

-----------------------------------------------------------------------------
\* No transaction has begun, no snapshot has been taken.
LEMMA InitInv == Init => SnapshotInv
<1> SUFFICES ASSUME Init PROVE SnapshotInv
    OBVIOUS
<1> USE SnapshotAssumption DEF Init, ForAll
<1>1. TypeOK
    BY DEF TypeOK, QdState, XactState
<1>2. GxidInv
    BY DEF GxidInv, Over
<1>3. PhaseInv
    BY DEF PhaseInv
<1>4. XidInv
    BY DEF XidInv
<1>5. LiveInv
    BY DEF LiveInv
<1>6. KnownInv /\ HorizonInv
    BY DEF KnownInv, HorizonInv
<1>7. LocalInv
    BY DEF LocalInv
<1>8. ForgottenInv
    BY DEF ForgottenInv, Forgotten
<1> QED
    BY <1>1, <1>2, <1>3, <1>4, <1>5, <1>6, <1>7, <1>8 DEF SnapshotInv

\* A step that changes nothing.
LEMMA StutterInv == SnapshotInv /\ UNCHANGED vars => SnapshotInv'
<1> SUFFICES ASSUME SnapshotInv, UNCHANGED vars PROVE SnapshotInv'
    OBVIOUS
<1>t. TypeOK /\ GxidInv /\ PhaseInv /\ XidInv /\ LiveInv /\ KnownInv /\ HorizonInv /\ LocalInv /\ ForgottenInv
    BY DEF SnapshotInv
<1> USE DEF vars, qdVars, segVars
<1>1. TypeOK'
    BY <1>t DEF TypeOK
<1>2. GxidInv' /\ PhaseInv' /\ XidInv' /\ LiveInv'
    BY <1>t DEF GxidInv, PhaseInv, XidInv, LiveInv, Over, AllAre, Participants
<1>3. KnownInv' /\ HorizonInv'
    BY <1>t DEF KnownInv, HorizonInv, Visible, Settled, Counts, Over, Dead, AllAre, Participants
<1>4. LocalInv'
    BY <1>t DEF LocalInv, InProcArray
<1>5. ForgottenInv'
    BY <1>t DEF ForgottenInv, Forgotten, Counts, Agreed, Settled, Over, Dead, AllAre, Participants
<1> QED
    BY <1>1, <1>2, <1>3, <1>4, <1>5 DEF SnapshotInv

(***************************************************************************)
(* What the coordinator, the segments and the snapshots in use know of     *)
(* every transaction fits together, whatever commits, aborts or advances   *)
(* oldestXmin meanwhile, also when a QE outlives the transaction of its QD *)
(* after a rollback, a failed one-phase commit or a crash.                 *)
(***************************************************************************)
THEOREM SnapshotInvariance == Spec => []SnapshotInv
<1>1. Init => SnapshotInv
    BY InitInv
<1>2. SnapshotInv /\ [Next]_vars => SnapshotInv'
  <2> SUFFICES ASSUME SnapshotInv, [Next]_vars PROVE SnapshotInv'
      OBVIOUS
  <2>1. CASE Next
      BY <2>1, TypeStep, GxidStep, PhaseStep, XidStep, LiveStep, KnownStep, LocalStep, ForgottenStep DEF SnapshotInv
  <2>2. CASE UNCHANGED vars
      BY <2>2, StutterInv
  <2> QED
      BY <2>1, <2>2
<1> QED
    BY <1>1, <1>2, PTL DEF Spec

\* The answer of the distributed snapshot, when it is asked.
LEMMA DistributedAnswer ==
    ASSUME SnapshotInv, NEW t \in Session, NEW s \in Seg, NEW u \in Session, ds[t] # NoSnap,
           CommittedTest(t, s, u) \notin {"UNKNOWN", "IGNORE"}
    PROVE  /\ DistributedLogEntry(s, u) = gxid[u] /\ xact[s][u] \in {"distlog", "clog", "committed"}
           /\ CommittedTest(t, s, u) = "VISIBLE" <=> Visible(t, gxid[u])
<1> DEFINE g == DistributedLogEntry(s, u)
<1>1. ds[t] \in DistributedSnapshot /\ gxid[u] \in Nat
    BY DEF SnapshotInv, TypeOK
<1>2. /\ ds[t].xmin \in Nat /\ ds[t].xmax \in Nat /\ ds[t].xminAll \in Nat
      /\ ds[t].inProgress \in SUBSET Nat
    BY <1>1 DEF DistributedSnapshot
<1>3. ds[t].xmin <= ds[t].xmax /\ \A h \in ds[t].inProgress : ds[t].xmin <= h
    BY DEF SnapshotInv, LiveInv
<1>4. g # 0 /\ ~ (xid[s][u] < oldestXmin[s]) /\ ~ (g < ds[t].xminAll)
  <2>1. ~ (xid[s][u] < oldestXmin[s] \/ g = 0)
      BY DEF CommittedTest
  <2>2. g \in Nat /\ ds[t].xminAll <= ds[t].xmax
      BY <1>1 DEF DistributedLogEntry, SnapshotInv, LiveInv
  <2>3. g < ds[t].xminAll => ~ (g >= ds[t].xminAll) /\ ~ (g >= ds[t].xmax)
      BY <1>2, <2>2
  <2>4. g < ds[t].xminAll => CommittedTest(t, s, u) = "IGNORE"
      BY <2>1, <2>3 DEF CommittedTest
  <2> QED
      BY <2>1, <2>4
<1>5. g = gxid[u] /\ xact[s][u] \in {"distlog", "clog", "committed"}
    BY <1>4 DEF DistributedLogEntry
<1>6. CommittedTest(t, s, u) = IF g < ds[t].xmin THEN "VISIBLE"
                               ELSE IF g >= ds[t].xmax \/ g \in ds[t].inProgress THEN "INPROGRESS"
                               ELSE "VISIBLE"
  <2>1. CommittedTest(t, s, u) =
            CASE g < ds[t].xminAll -> "IGNORE"
              [] g >= ds[t].xminAll /\ g < ds[t].xmin -> "VISIBLE"
              [] g >= ds[t].xmax -> "INPROGRESS"
              [] OTHER -> IF g \in ds[t].inProgress THEN "INPROGRESS" ELSE "VISIBLE"
      BY <1>4 DEF CommittedTest
  <2>2. g \in Nat
      BY <1>1, <1>5
  <2> HIDE DEF g
  <2>3. CASE g < ds[t].xmin
    <3>1. g >= ds[t].xminAll /\ ~ (g >= ds[t].xmax)
        BY <1>2, <1>3, <1>4, <2>2, <2>3
    <3> QED
        BY <1>4, <2>1, <2>3, <3>1
  <2>4. CASE ~ (g < ds[t].xmin)
      BY <1>4, <2>1, <2>4
  <2> QED
      BY <2>3, <2>4
<1> HIDE DEF g
<1>7. g < ds[t].xmin => g < ds[t].xmax /\ g \notin ds[t].inProgress
    BY <1>1, <1>2, <1>3, <1>5
<1>8. ~ (g >= ds[t].xmax) <=> g < ds[t].xmax
    BY <1>1, <1>2, <1>5
<1> QED
    BY <1>5, <1>6, <1>7, <1>8 DEF Visible, g

(***************************************************************************)
(* A snapshot sees on every segment exactly the transactions whose commit  *)
(* had ended on the coordinator when it was taken, whether the distributed *)
(* log is still asked (CommittedTest) or the local snapshot decides.  A    *)
(* one-phase commit that failed and that its QEs finish after the snapshot *)
(* was taken is left out, as in SnapshotExact.                             *)
(***************************************************************************)
THEOREM SnapshotAlwaysExact == Spec => []SnapshotExact
<1>1. SnapshotInv => SnapshotExact
  <2> SUFFICES ASSUME SnapshotInv, NEW t \in Reader, NEW u \in Writer, NEW s \in Seg,
                      t # u, gxid[u] # startGxid, u \notin unsure[t], Ready(t, s), Wrote(u, s)
               PROVE  Sees(t, s, u) <=> u \in due[t]
      BY DEF SnapshotExact
  <2>t. TypeOK /\ PhaseInv /\ XidInv /\ LiveInv /\ KnownInv /\ HorizonInv /\ LocalInv /\ ForgottenInv
      BY DEF SnapshotInv
  <2>1. t \in Session /\ u \in Session
      BY DEF Session
  <2>2. xid[s][u] # 0 /\ ls[s][t] # NoSnap
      BY DEF Ready, Wrote
  <2>3. ds[t] # NoSnap
      BY <2>t, <2>1, <2>2 DEF LiveInv
  <2>5. xact[s][u] # "none" /\ Counts(u)
      BY <2>t, <2>1, <2>2 DEF PhaseInv, Counts
  <2>6. u \in due[t] => /\ AllAre(u, "committed") /\ Visible(t, gxid[u])
                        /\ xid[s][u] < ls[s][t].xmax /\ xid[s][u] \notin ls[s][t].xip
      BY <2>t, <2>1, <2>2, <2>3 DEF KnownInv, LocalInv
  <2>7. /\ AllAre(u, "committed") => xact[s][u] = "committed"
        /\ Settled(t, u) /\ xact[s][u] \in {"distlog", "clog", "committed"} => u \in due[t]
      BY <2>t, <2>1, <2>5 DEF Settled, Dead, PhaseInv, AllAre, Participants
  <2>8. CASE u \in ignored[s] \/ CommittedTest(t, s, u) \in {"UNKNOWN", "IGNORE"}
    <3>1. Sees(t, s, u) <=> /\ xid[s][u] < ls[s][t].xmax
                            /\ ~ XidInMVCCSnapshot_Local(t, s, u) /\ InClog(s, u)
        BY <2>8 DEF Sees
    <3>2. ASSUME u \in due[t] PROVE Sees(t, s, u)
      <4>1. xid[s][u] \in Nat /\ ls[s][t] \in LocalSnapshot
          BY <2>t, <2>1, <2>2 DEF TypeOK
      <4>2. ls[s][t].xmax \in Nat
          BY <4>1 DEF LocalSnapshot
      <4>3. ~ (xid[s][u] >= ls[s][t].xmax)
          BY <2>6, <3>2, <4>1, <4>2
      <4>4. ~ XidInMVCCSnapshot_Local(t, s, u)
          BY <2>6, <3>2, <4>3 DEF XidInMVCCSnapshot_Local
      <4>5. InClog(s, u)
          BY <2>6, <2>7, <3>2 DEF InClog
      <4> QED
          BY <2>6, <3>1, <3>2, <4>4, <4>5
    <3>3. ASSUME InClog(s, u) PROVE u \in due[t]
      <4>1. xact[s][u] \in {"clog", "committed"}
          BY <3>3 DEF InClog
      <4>2. CASE Forgotten(s, u)
          BY <2>t, <2>1, <2>3, <2>5, <2>7, <4>1, <4>2 DEF ForgottenInv, Agreed
      <4>3. CASE ~ Forgotten(s, u)
        <5>1. u \notin ignored[s] /\ ~ (xid[s][u] < oldestXmin[s])
            BY <2>2, <4>3 DEF Forgotten
        <5>2. DistributedLogEntry(s, u) = gxid[u] /\ gxid[u] # 0
            BY <2>5, <4>1 DEF DistributedLogEntry, Counts
        <5>3. CommittedTest(t, s, u) \in {"UNKNOWN", "IGNORE"}
            BY <2>8, <5>1
        <5>4. gxid[u] < ds[t].xminAll
            BY <5>1, <5>2, <5>3 DEF CommittedTest
        <5>5. Settled(t, u)
            BY <2>t, <2>1, <2>3, <2>5, <5>4 DEF HorizonInv
        <5> QED
            BY <2>7, <4>1, <5>5
      <4> QED
          BY <4>2, <4>3
    <3> QED
        BY <3>1, <3>2, <3>3
  <2>9. CASE u \notin ignored[s] /\ CommittedTest(t, s, u) \notin {"UNKNOWN", "IGNORE"}
    <3>1. Sees(t, s, u) <=> xid[s][u] < ls[s][t].xmax /\ CommittedTest(t, s, u) = "VISIBLE"
        BY <2>9 DEF Sees
    <3>2. /\ xact[s][u] \in {"distlog", "clog", "committed"}
          /\ CommittedTest(t, s, u) = "VISIBLE" <=> Visible(t, gxid[u])
        BY <2>1, <2>3, <2>9, DistributedAnswer
    <3>3. Visible(t, gxid[u]) => Settled(t, u)
        BY <2>t, <2>1, <2>3, <2>5 DEF KnownInv
    <3>4. Visible(t, gxid[u]) => u \in due[t]
        BY <2>7, <3>2, <3>3
    <3> QED
        BY <2>6, <3>1, <3>2, <3>4
  <2> QED
      BY <2>8, <2>9
<1> QED
    BY <1>1, SnapshotInvariance, PTL
=============================================================================
