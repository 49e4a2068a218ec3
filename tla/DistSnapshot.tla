---------------------------- MODULE DistSnapshot ----------------------------
(***************************************************************************)
(* Distributed snapshots.  The coordinator makes a snapshot of gxids; each *)
(* segment adds a local snapshot when the statement arrives there, and     *)
(* decides the visibility of a local xid by the distributed snapshot, as   *)
(* long as the distributed log still knows the xid's gxid.  How long that  *)
(* is, oldestXmin, is advanced by every snapshot taken on the segment.     *)
(***************************************************************************)
EXTENDS Integers, FiniteSets, FiniteSetsExt

CONSTANTS
    Writer,     \* sessions that write, each runs one transaction
    Reader,     \* sessions that take snapshots (may overlap with Writer)
    Seg,        \* segments
    Dispatched, \* the segments that the statements of each session are dispatched to
    NoSnap,
    FirstGxid,  \* 1: the cluster has just started; 2: one transaction has ended since
    MaxSnap,    \* bound: distributed snapshots taken
    MaxCrash    \* bound: coordinator crashes

Session == Writer \cup Reader

DistributedSnapshot == [xmin : Nat, xmax : Nat, inProgress : SUBSET Nat, xminAll : Nat]
LocalSnapshot == [xmin : Nat, xmax : Nat, xip : SUBSET Nat, globalxmin : Nat, ready : BOOLEAN]

ASSUME SnapshotAssumption ==
    /\ IsFiniteSet(Session)
    /\ Dispatched \in [Session -> SUBSET Seg]
    /\ NoSnap \notin DistributedSnapshot \cup LocalSnapshot
    /\ FirstGxid \in {1, 2}
    /\ MaxSnap \in Nat
    /\ MaxCrash \in Nat

VARIABLES
    nextGxid, latestCompletedGxid,   \* ShmemVariableCache
    startGxid,  \* nextGxid at the last start-up
    qd,         \* progress of each session's transaction on the coordinator
    gxid,       \* its gxid, 0: none
    xminDS,     \* TMGXACT.xminDistributedSnapshot, 0: none
    ds,         \* its distributed snapshot
    nextXid, latestCompletedXid,     \* ShmemVariableCache of each segment
    xact,       \* progress of each transaction on each segment
    xid,        \* its local xid, 0: none
    xmin,       \* PGPROC.xmin of its QE, 0: none
    ls,         \* the local snapshot of its QE
    oldestXmin, \* DistributedLogShared->oldestXmin
    ignored,    \* transactions whose tuples carry the "ignore" hint
    due,        \* history: commits that had ended when the snapshot was taken
    unsure,     \* history: failed one-phase commits that were not over then
    snaps, crashes   \* counters of the bounds

qdVars  == <<nextGxid, latestCompletedGxid, startGxid, qd, gxid, xminDS, ds, due, unsure, snaps, crashes>>
segVars == <<nextXid, latestCompletedXid, xact, xid, xmin, ls, oldestXmin, ignored>>
vars == <<qdVars, segVars>>

QdState == {"idle", "open", "onePhase", "committing", "recovering", "ended", "aborted", "lost"}
XactState == {"none", "running", "distlog", "clog", "committed", "aborted"}

TypeOK ==
    /\ nextGxid \in Nat
    /\ latestCompletedGxid \in Nat
    /\ startGxid \in Nat
    /\ qd \in [Session -> QdState]
    /\ gxid \in [Session -> Nat]
    /\ xminDS \in [Session -> Nat]
    /\ ds \in [Session -> DistributedSnapshot \cup {NoSnap}]
    /\ nextXid \in [Seg -> Nat]
    /\ latestCompletedXid \in [Seg -> Nat]
    /\ xact \in [Seg -> [Session -> XactState]]
    /\ xid \in [Seg -> [Session -> Nat]]
    /\ xmin \in [Seg -> [Session -> Nat]]
    /\ ls \in [Seg -> [Session -> LocalSnapshot \cup {NoSnap}]]
    /\ oldestXmin \in [Seg -> Nat]
    /\ ignored \in [Seg -> SUBSET Session]
    /\ due \in [Session -> SUBSET Session]
    /\ unsure \in [Session -> SUBSET Session]
    /\ snaps \in 0 .. MaxSnap
    /\ crashes \in 0 .. MaxCrash
    /\ \A s \in Seg : latestCompletedXid[s] < nextXid[s]

ForAll(v) == [t \in Session |-> v]

Init ==
    /\ nextGxid = FirstGxid
    /\ latestCompletedGxid = 1
    /\ startGxid = 1
    /\ qd = ForAll("idle")
    /\ gxid = ForAll(0)
    /\ xminDS = ForAll(0)
    /\ ds = ForAll(NoSnap)
    /\ nextXid = [s \in Seg |-> 1]
    /\ latestCompletedXid = [s \in Seg |-> 0]
    /\ xact = [s \in Seg |-> ForAll("none")]
    /\ xid = [s \in Seg |-> ForAll(0)]
    /\ xmin = [s \in Seg |-> ForAll(0)]
    /\ ls = [s \in Seg |-> ForAll(NoSnap)]
    /\ oldestXmin = [s \in Seg |-> 1]
    /\ ignored = [s \in Seg |-> {}]
    /\ due = ForAll({})
    /\ unsure = ForAll({})
    /\ snaps = 0
    /\ crashes = 0

-----------------------------------------------------------------------------
(* The coordinator                                                         *)

\* gxids in the TMGXACT array: transactions of live QD backends.
LiveGxids == {gxid[t] : t \in {u \in Session : qd[u] \in {"open", "onePhase", "committing"}}} \ {0}

\* shmNumCommittedGxacts: commits the DTX recovery process has to finish.
NumCommittedGxacts == Cardinality({t \in Session : qd[t] = "recovering"})

MinOf(S, default) == Min(S \cup {default})

CreateDistributedSnapshot(t) ==
    LET xmax == latestCompletedGxid + 1
        running == {g \in LiveGxids : g < xmax}
        lowest == MinOf(running, xmax)
    IN  [xmin |-> lowest, xmax |-> xmax, inProgress |-> running \ {gxid[t]},
         xminAll |-> MinOf(({xminDS[u] : u \in Session} \ {0}) \cup running, xmax)]

\* The segments where the transaction has an xid: they all took part.
Participants(t) == {s \in Seg : xact[s][t] # "none"}

AllAre(t, state) == Participants(t) # {} /\ \A s \in Participants(t) : xact[s][t] = state

EndedCommits == {u \in Session : qd[u] \in {"ended", "lost"} /\ AllAre(u, "committed")}

\* The QD has given up the commit, the segments have not come to one end yet.
Unresolved == {u \in Session : qd[u] = "lost" /\ ~ AllAre(u, "committed") /\ ~ AllAre(u, "aborted")}

currentDtxActivate(t) ==
    /\ qd[t] \in {"idle", "open"}
    /\ gxid[t] = 0
    /\ qd' = [qd EXCEPT ![t] = "open"]
    /\ gxid' = [gxid EXCEPT ![t] = nextGxid]
    /\ nextGxid' = nextGxid + 1
    /\ UNCHANGED <<latestCompletedGxid, startGxid, xminDS, ds, due, unsure, snaps, crashes, segVars>>

\* A new statement: the QD's GetSnapshotData() under ProcArrayLock, sent to the
\* segments with the plan.
SnapshotFor(t) ==
    /\ qd[t] \in {"idle", "open"}
    /\ snaps < MaxSnap
    /\ qd' = [qd EXCEPT ![t] = "open"]
    /\ ds' = [ds EXCEPT ![t] = CreateDistributedSnapshot(t)]
    /\ xminDS' = [xminDS EXCEPT ![t] = IF @ = 0 THEN CreateDistributedSnapshot(t).xmin ELSE @]
    /\ ls' = [s \in Seg |-> [ls[s] EXCEPT ![t] = NoSnap]]
    /\ due' = [due EXCEPT ![t] = EndedCommits]
    /\ unsure' = [unsure EXCEPT ![t] = Unresolved]
    /\ snaps' = snaps + 1
    /\ UNCHANGED <<nextGxid, latestCompletedGxid, startGxid, gxid, crashes, nextXid,
                   latestCompletedXid, xact, xid, xmin, oldestXmin, ignored>>

\* Fault: xminDistributedSnapshot is not recorded.
SnapshotForgetsXmin(t) ==
    /\ NumCommittedGxacts = 0
    /\ qd[t] \in {"idle", "open"}
    /\ snaps < MaxSnap
    /\ qd' = [qd EXCEPT ![t] = "open"]
    /\ ds' = [ds EXCEPT ![t] = CreateDistributedSnapshot(t)]
    /\ ls' = [s \in Seg |-> [ls[s] EXCEPT ![t] = NoSnap]]
    /\ due' = [due EXCEPT ![t] = EndedCommits]
    /\ unsure' = [unsure EXCEPT ![t] = Unresolved]
    /\ snaps' = snaps + 1
    /\ UNCHANGED <<nextGxid, latestCompletedGxid, startGxid, gxid, xminDS, crashes, nextXid,
                   latestCompletedXid, xact, xid, xmin, oldestXmin, ignored>>

TakeSnapshot(t) ==
    /\ NumCommittedGxacts = 0
    /\ SnapshotFor(t)

\* Its last statement is over and no part of it has failed.
StartCommit(t, state) ==
    /\ qd[t] = "open"
    /\ \A s \in Seg : ls[s][t] # NoSnap => ls[s][t].ready
    /\ AllAre(t, "running")
    /\ qd' = [qd EXCEPT ![t] = state]
    /\ UNCHANGED <<nextGxid, latestCompletedGxid, startGxid, gxid, xminDS, ds, due, unsure, snaps, crashes, segVars>>

\* COMMIT_ONEPHASE is sent, without prepare and without commit record: there is
\* one segment, or there are several and none of them wrote WAL.
doNotifyingOnePhaseCommit(t) == StartCommit(t, "onePhase")

\* All participants have prepared, the commit is recorded.
RecordCommit(t) == StartCommit(t, "committing")

\* Every trace of the QEs' snapshots is gone with the transaction.
DropSnapshots(T) ==
    /\ ds' = [t \in Session |-> IF t \in T THEN NoSnap ELSE ds[t]]
    /\ xminDS' = [t \in Session |-> IF t \in T THEN 0 ELSE xminDS[t]]
    /\ ls' = [s \in Seg |-> [t \in Session |-> IF t \in T THEN NoSnap ELSE ls[s][t]]]
    /\ xmin' = [s \in Seg |-> [t \in Session |-> IF t \in T THEN 0 ELSE xmin[s][t]]]

ProcArrayEndGxact(t) == latestCompletedGxid' = Max({latestCompletedGxid, gxid[t]})

EndTransaction(t, state) ==
    /\ qd' = [qd EXCEPT ![t] = state]
    /\ ProcArrayEndGxact(t)
    /\ DropSnapshots({t})

\* All segments have committed.
EndCommit(t) ==
    /\ qd[t] \in {"onePhase", "committing"}
    /\ AllAre(t, "committed")
    /\ EndTransaction(t, "ended")
    /\ UNCHANGED <<nextGxid, startGxid, gxid, due, unsure, snaps, crashes, nextXid, latestCompletedXid,
                   xact, xid, oldestXmin, ignored>>

\* The notification failed.  The QD rolls back, which reaches no QE whose
\* connection is lost: it commits or aborts on its own, now or later.
FailOnePhase(t) ==
    /\ qd[t] = "onePhase"
    /\ EndTransaction(t, "lost")
    /\ UNCHANGED <<nextGxid, startGxid, gxid, due, unsure, snaps, crashes, nextXid, latestCompletedXid,
                   xact, xid, oldestXmin, ignored>>

\* Rollback, or the end of a transaction that only read.  QEs that do not get
\* the message abort later.
EndAbort(t) ==
    /\ qd[t] = "open"
    /\ EndTransaction(t, "aborted")
    /\ UNCHANGED <<nextGxid, startGxid, gxid, due, unsure, snaps, crashes, nextXid, latestCompletedXid,
                   xact, xid, oldestXmin, ignored>>

\* The coordinator crashes and starts: StartupXLOG() sets latestCompletedGxid,
\* recorded commits are left to the DTX recovery process.  Of a one-phase
\* commit it knows nothing.
CrashAndStartup ==
    LET live == {t \in Session : qd[t] \in {"open", "onePhase", "committing", "recovering"}} IN
    /\ crashes < MaxCrash
    /\ crashes' = crashes + 1
    /\ startGxid' = nextGxid
    /\ latestCompletedGxid' = nextGxid
    /\ qd' = [t \in Session |-> CASE qd[t] = "open" -> "aborted"
                                  [] qd[t] = "onePhase" -> "lost"
                                  [] qd[t] = "committing" -> "recovering"
                                  [] OTHER -> qd[t]]
    /\ DropSnapshots(live)
    /\ UNCHANGED <<nextGxid, gxid, due, unsure, snaps, nextXid, latestCompletedXid, xact, xid,
                   oldestXmin, ignored>>

\* The DTX recovery process has committed the transaction on all segments.
RecoverCommitted(t) ==
    /\ qd[t] = "recovering"
    /\ AllAre(t, "committed")
    /\ qd' = [qd EXCEPT ![t] = "ended"]
    /\ UNCHANGED <<nextGxid, latestCompletedGxid, startGxid, gxid, xminDS, ds, due, unsure, snaps, crashes, segVars>>

-----------------------------------------------------------------------------
(* A segment                                                               *)

\* GetNewTransactionId() on a segment.
AssignXid(t, s) ==
    /\ qd[t] = "open"
    /\ gxid[t] # 0
    /\ s \in Dispatched[t]
    /\ xact[s][t] = "none"
    /\ xact' = [xact EXCEPT ![s][t] = "running"]
    /\ xid' = [xid EXCEPT ![s][t] = nextXid[s]]
    /\ nextXid' = [nextXid EXCEPT ![s] = @ + 1]
    /\ UNCHANGED <<qdVars, latestCompletedXid, xmin, ls, oldestXmin, ignored>>

\* A QE fails, is told to roll back, or notices that its QD is gone: then it no
\* longer uses its snapshot, DropSnapshots() has taken that already.
AbortOnSegment(t, s) ==
    /\ qd[t] \in {"open", "onePhase", "aborted", "lost"}
    /\ xact[s][t] = "running"
    /\ xact' = [xact EXCEPT ![s][t] = "aborted"]
    /\ latestCompletedXid' = [latestCompletedXid EXCEPT ![s] = Max({@, xid[s][t]})]
    /\ UNCHANGED <<qdVars, nextXid, xid, xmin, ls, oldestXmin, ignored>>

\* Commit Prepared or one-phase commit on a segment, in three steps: the
\* distributed log, then pg_xact, then the ProcArray.
CommitStep(t, s, from, to) ==
    /\ qd[t] \in {"onePhase", "lost", "committing", "recovering"}
    /\ xact[s][t] = from
    /\ xact' = [xact EXCEPT ![s][t] = to]
    /\ UNCHANGED <<qdVars, nextXid, xid, xmin, ls, oldestXmin, ignored>>

SetCommittedTree(t, s) ==
    /\ CommitStep(t, s, "running", "distlog")
    /\ UNCHANGED latestCompletedXid

CommitTree(t, s) ==
    /\ CommitStep(t, s, "distlog", "clog")
    /\ UNCHANGED latestCompletedXid

ProcArrayRemove(t, s) ==
    /\ CommitStep(t, s, "clog", "committed")
    /\ latestCompletedXid' = [latestCompletedXid EXCEPT ![s] = Max({@, xid[s][t]})]

InProcArray(s, t) == xact[s][t] \in {"running", "distlog", "clog"}

InClog(s, t) == xact[s][t] \in {"clog", "committed"}

\* Entry of a transaction's xid in the distributed log; 0 after an abort.
DistributedLogEntry(s, t) == IF xact[s][t] \in {"distlog", "clog", "committed"} THEN gxid[t] ELSE 0

\* The QE's GetSnapshotData() under ProcArrayLock.  Processes without an xid are
\* passed over before their xmin is read.
GetSnapshotData(t, s) ==
    LET running == {u \in Session : InProcArray(s, u)}
        xmax == latestCompletedXid[s] + 1
        own == {xid[s][t]} \ {0}
        seen == {xid[s][u] : u \in running \ {t}} \cap (0 .. xmax - 1)
        lowest == MinOf(seen \cup own, xmax)
        published == {xmin[s][u] : u \in running} \ {0}
    IN
    /\ qd[t] = "open"
    /\ ds[t] # NoSnap
    /\ s \in Dispatched[t]
    /\ ls[s][t] = NoSnap
    /\ ls' = [ls EXCEPT ![s][t] = [xmin |-> lowest, xmax |-> xmax, xip |-> seen,
                                   globalxmin |-> MinOf(published, lowest), ready |-> FALSE]]
    /\ xmin' = [xmin EXCEPT ![s][t] = IF @ = 0 THEN lowest ELSE @]
    /\ UNCHANGED <<qdVars, nextXid, latestCompletedXid, xact, xid, oldestXmin, ignored>>

\* Xids that stop the advance of oldestXmin.
Stop(s, xminAll) == {xid[s][u] : u \in {v \in Session : DistributedLogEntry(s, v) >= xminAll}}

\* DistributedLog_AdvanceOldestXmin(): the compare-and-exchange loop leaves the
\* larger of what it found and what another process set meanwhile.
AdvanceOldestXmin(s, oldestLocalXmin, xminAll) ==
    LET ahead == {x \in Stop(s, xminAll) : x >= oldestXmin[s]}
    IN  Max({oldestXmin[s], MinOf(ahead, oldestLocalXmin)})

\* The rest of GetSnapshotData(), after ProcArrayLock was released.
FinishSnapshot(t, s) ==
    LET oldest == AdvanceOldestXmin(s, ls[s][t].globalxmin, ds[t].xminAll) IN
    /\ ls[s][t] # NoSnap
    /\ ~ls[s][t].ready
    /\ oldestXmin' = [oldestXmin EXCEPT ![s] = oldest]
    /\ IF oldest > ls[s][t].xmin
       THEN \* ERROR "global xmin is higher than transaction xmin": it rolls back.
            EndTransaction(t, "aborted")
       ELSE /\ ls' = [ls EXCEPT ![s][t].ready = TRUE]
            /\ UNCHANGED <<qd, latestCompletedGxid, xminDS, ds, xmin>>
    /\ UNCHANGED <<nextGxid, startGxid, gxid, due, unsure, snaps, crashes, nextXid, latestCompletedXid,
                   xact, xid, ignored>>

-----------------------------------------------------------------------------
(* Visibility of the writes of u to the snapshot of t on segment s         *)

\* DistributedSnapshotWithLocalMapping_CommittedTest()
CommittedTest(t, s, u) ==
    LET g == DistributedLogEntry(s, u) IN
    CASE xid[s][u] < oldestXmin[s] \/ g = 0 -> "UNKNOWN"
      [] OTHER ->
         CASE g < ds[t].xminAll -> "IGNORE"
           [] g >= ds[t].xminAll /\ g < ds[t].xmin -> "VISIBLE"
           [] g >= ds[t].xmax -> "INPROGRESS"
           [] OTHER -> IF g \in ds[t].inProgress THEN "INPROGRESS" ELSE "VISIBLE"

XidInMVCCSnapshot_Local(t, s, u) ==
    \/ xid[s][u] >= ls[s][t].xmax
    \/ xid[s][u] >= ls[s][t].xmin /\ xid[s][u] \in ls[s][t].xip

\* XidInMVCCSnapshot() and the callers' look at pg_xact.
Sees(t, s, u) ==
    /\ xid[s][u] < ls[s][t].xmax
    /\ IF u \in ignored[s] \/ CommittedTest(t, s, u) \in {"UNKNOWN", "IGNORE"}
       THEN ~XidInMVCCSnapshot_Local(t, s, u) /\ InClog(s, u)
       ELSE CommittedTest(t, s, u) = "VISIBLE"

\* The tuples of u get the hint that the distributed log need not be asked again.
SetIgnoreHint(t, s, u) ==
    /\ u # t
    /\ qd[t] = "open"
    /\ ls[s][t] # NoSnap
    /\ ls[s][t].ready
    /\ xid[s][u] # 0
    /\ u \notin ignored[s]
    /\ xid[s][u] < ls[s][t].xmax
    /\ CommittedTest(t, s, u) = "IGNORE"
    /\ ignored' = [ignored EXCEPT ![s] = @ \cup {u}]
    /\ UNCHANGED <<qdVars, nextXid, latestCompletedXid, xact, xid, xmin, ls, oldestXmin>>

-----------------------------------------------------------------------------
Next ==
    \/ CrashAndStartup
    \/ \E t \in Writer :
        \/ currentDtxActivate(t)
        \/ doNotifyingOnePhaseCommit(t)
        \/ RecordCommit(t)
        \/ EndCommit(t)
        \/ FailOnePhase(t)
        \/ RecoverCommitted(t)
        \/ \E s \in Seg : \/ AssignXid(t, s)
                          \/ AbortOnSegment(t, s)
                          \/ SetCommittedTree(t, s)
                          \/ CommitTree(t, s)
                          \/ ProcArrayRemove(t, s)
    \/ \E t \in Session : EndAbort(t)
    \/ \E t \in Reader :
        \/ TakeSnapshot(t)
        \/ \E s \in Seg : \/ GetSnapshotData(t, s)
                          \/ FinishSnapshot(t, s)
                          \/ \E u \in Writer : SetIgnoreHint(t, s, u)

Spec == Init /\ [][Next]_vars

-----------------------------------------------------------------------------
Ready(t, s) == ls[s][t] # NoSnap /\ ls[s][t].ready

Wrote(u, s) == xid[s][u] # 0

\* A snapshot sees, on every segment and as long as it is in use, exactly the
\* transactions whose commit had ended on the coordinator when it was taken:
\* all of a distributed transaction or nothing of it, whatever commits later,
\* wherever oldestXmin moves, whatever hints are set.  Not for the transaction
\* with the first gxid after start-up, nor for a one-phase commit that the QD
\* had given up and its QEs had not finished when the snapshot was taken.
SnapshotExact ==
    \A t \in Reader, u \in Writer, s \in Seg :
        (t # u /\ gxid[u] # startGxid /\ u \notin unsure[t] /\ Ready(t, s) /\ Wrote(u, s)) =>
            (Sees(t, s, u) <=> u \in due[t])
=============================================================================
