----------------------------- MODULE GxactOrder -----------------------------
(***************************************************************************)
(* The order of writers of a row, and the order in which their distributed *)
(* transactions end on the coordinator.  A transaction ends on a segment   *)
(* before it ends on the coordinator, so a second writer can overtake the  *)
(* first one there.  Segments therefore report whom a transaction waited   *)
(* for (waitGxids), and the coordinator waits for those before it ends the *)
(* transaction.  Applies when the global deadlock detector is enabled:     *)
(* without it writers of a table exclude each other on the coordinator.    *)
(***************************************************************************)
EXTENDS Integers, Sequences, FiniteSets, FiniteSetsExt

CONSTANTS
    Gxact,      \* distributed transactions, one per QD backend
    Seg,        \* segments; each holds one row that everybody updates
    NoGxact,
    FirstGxid,  \* the first id handed out
    SignBit,    \* sign bit of the int that carries a waited-for gxid (2^31)
    MaxRetry    \* bound: transactions whose commit dispatch fails

ASSUME OrderAssumption ==
    /\ NoGxact \notin Gxact
    /\ FirstGxid \in Nat \ {0}
    /\ SignBit \in Nat \ {0}
    /\ MaxRetry \in Nat

VARIABLES
    nextGxid,   \* ShmemVariableCache->nextGxid
    gxid,       \* MyTmGxact->gxid of the transaction
    locked,     \* gxids whose LOCKTAG_DISTRIB_TRANSACTION lock is held
    qd,         \* progress of each transaction on the coordinator
    waitGxids,  \* MyTmGxactLocal->waitGxids on the coordinator
    reply,      \* waitGxids in the results received so far
    xact,       \* state of each transaction on each segment
    writers,    \* who wrote the row of each segment, in order
    blocker,    \* whom the QE found to be writing the row
    sleeping,   \* the QE is past the report of XactLockTableWait()
    qeWaits,    \* MyTmGxactLocal->waitGxids on the segment
    failed,     \* transactions whose commit dispatch failed
    reports,    \* history: waits, with the waited-for one's state then
    order       \* history: second overwrote a version committed by first

qdVars  == <<nextGxid, gxid, locked, qd, waitGxids, reply, failed>>
segVars == <<xact, writers, blocker, sleeping, qeWaits>>
histVars == <<reports, order>>
vars == <<qdVars, segVars, histVars>>

TypeOK ==
    /\ nextGxid \in Nat
    /\ gxid \in [Gxact -> Nat]
    /\ locked \subseteq Nat
    /\ qd \in [Gxact -> {"idle", "active", "onePhase", "notifying", "retry",
                         "waiting", "ending", "ended"}]
    /\ waitGxids \in [Gxact -> SUBSET Int]
    /\ reply \in [Gxact -> SUBSET Int]
    /\ xact \in [Seg -> [Gxact -> {"none", "running", "prepared", "committed", "aborted"}]]
    /\ writers \in [Seg -> Seq(Gxact)]
    /\ blocker \in [Seg -> [Gxact -> Gxact \cup {NoGxact}]]
    /\ sleeping \in [Seg -> [Gxact -> BOOLEAN]]
    /\ \A s \in Seg, t \in Gxact : sleeping[s][t] => blocker[s][t] # NoGxact
    /\ qeWaits \in [Seg -> [Gxact -> SUBSET Int]]
    /\ failed \subseteq Gxact
    /\ reports \subseteq [seg : Seg, first : Gxact, second : Gxact,
                          state : {"none", "running", "prepared", "committed", "aborted"}]
    /\ order \subseteq [seg : Seg, first : Gxact, second : Gxact]

Init ==
    /\ nextGxid = FirstGxid
    /\ gxid = [t \in Gxact |-> 0]
    /\ locked = {}
    /\ qd = [t \in Gxact |-> "idle"]
    /\ waitGxids = [t \in Gxact |-> {}]
    /\ reply = [t \in Gxact |-> {}]
    /\ xact = [s \in Seg |-> [t \in Gxact |-> "none"]]
    /\ writers = [s \in Seg |-> << >>]
    /\ blocker = [s \in Seg |-> [t \in Gxact |-> NoGxact]]
    /\ sleeping = [s \in Seg |-> [t \in Gxact |-> FALSE]]
    /\ qeWaits = [s \in Seg |-> [t \in Gxact |-> {}]]
    /\ failed = {}
    /\ reports = {}
    /\ order = {}

-----------------------------------------------------------------------------
InProgress(s, t) == xact[s][t] \in {"running", "prepared"}

Participants(t) == {s \in Seg : xact[s][t] # "none"}

\* The writer of the newest version that did not abort.
LastWriter(s) ==
    LET kept == {i \in DOMAIN writers[s] : xact[s][writers[s][i]] # "aborted"}
    IN  IF kept = {} THEN NoGxact ELSE writers[s][Max(kept)]

\* A gxid in a list of int: cut to the bits of an int, the top one is the sign; as a
\* DistributedTransactionId again, a negative one is nobody's id.
ToInt(g) ==
    LET low == g % (2 * SignBit)
    IN  IF low < SignBit THEN low ELSE low - 2 * SignBit

\* Fault: only the ProcArray is searched.
OnlyProcArray(s, t) == IF xact[s][t] = "running" THEN {gxid[t]} ELSE {}

\* LocalXidGetDistributedXid(): the gxid of a running QE is in its TMGXACT; the
\* dummy PGPROC of a prepared transaction has none, nor has the distributed log
\* before the commit.
LocalXidGetDistributedXid(s, t) ==
    IF xact[s][t] \in {"running", "committed"} THEN {gxid[t]} ELSE {}

-----------------------------------------------------------------------------
(* A transaction on the coordinator starts, a QE writes                     *)

currentDtxActivate(t) ==
    /\ qd[t] = "idle"
    /\ qd' = [qd EXCEPT ![t] = "active"]
    /\ gxid' = [gxid EXCEPT ![t] = nextGxid]
    /\ nextGxid' = nextGxid + 1
    /\ locked' = locked \cup {nextGxid}     \* GxactLockTableInsert()
    /\ UNCHANGED <<waitGxids, reply, failed, segVars, histVars>>

\* heap_update() finds the newest version written by somebody in progress.
FindBlocker(t, s) ==
    /\ qd[t] = "active"
    /\ xact[s][t] = "none"
    /\ blocker[s][t] = NoGxact
    /\ LastWriter(s) # NoGxact
    /\ InProgress(s, LastWriter(s))
    /\ blocker' = [blocker EXCEPT ![s][t] = LastWriter(s)]
    /\ UNCHANGED <<qdVars, xact, writers, sleeping, qeWaits, histVars>>

\* The part of XactLockTableWait() before the lock is requested.
ReportWait(t, s) ==
    LET u == blocker[s][t] IN
    /\ u # NoGxact
    /\ ~sleeping[s][t]
    /\ sleeping' = [sleeping EXCEPT ![s][t] = TRUE]
    /\ qeWaits' = [qeWaits EXCEPT ![s][t] =
                      @ \cup {ToInt(g) : g \in LocalXidGetDistributedXid(s, u)}]
    /\ reports' = reports \cup {[seg |-> s, first |-> u, second |-> t, state |-> xact[s][u]]}
    /\ UNCHANGED <<qdVars, xact, writers, blocker, order>>

\* The waited-for transaction is no longer in progress on the segment.
EndWait(t, s) ==
    /\ sleeping[s][t]
    /\ ~InProgress(s, blocker[s][t])
    /\ blocker' = [blocker EXCEPT ![s][t] = NoGxact]
    /\ sleeping' = [sleeping EXCEPT ![s][t] = FALSE]
    /\ UNCHANGED <<qdVars, xact, writers, qeWaits, histVars>>

\* Nobody in progress holds the newest version: write the next one.
WriteRow(t, s) ==
    /\ qd[t] = "active"
    /\ xact[s][t] = "none"
    /\ blocker[s][t] = NoGxact
    /\ LastWriter(s) # NoGxact => ~InProgress(s, LastWriter(s))
    /\ xact' = [xact EXCEPT ![s][t] = "running"]
    /\ writers' = [writers EXCEPT ![s] = Append(@, t)]
    /\ order' = order \cup {[seg |-> s, first |-> u, second |-> t] : u \in {LastWriter(s)} \ {NoGxact}}
    /\ UNCHANGED <<qdVars, blocker, sleeping, qeWaits, reports>>

-----------------------------------------------------------------------------
(* The end of a transaction                                                *)

Unblocked(t) == \A s \in Seg : blocker[s][t] = NoGxact

\* The user or an error aborts: rollback everywhere, waits are cancelled.
AbortTransaction(t) ==
    /\ qd[t] = "active"
    /\ qd' = [qd EXCEPT ![t] = "ending"]
    /\ xact' = [s \in Seg |-> [xact[s] EXCEPT ![t] = IF @ = "running" THEN "aborted" ELSE @]]
    /\ blocker' = [s \in Seg |-> [blocker[s] EXCEPT ![t] = NoGxact]]
    /\ sleeping' = [s \in Seg |-> [sleeping[s] EXCEPT ![t] = FALSE]]
    /\ UNCHANGED <<nextGxid, gxid, locked, waitGxids, reply, failed, writers, qeWaits, histVars>>

\* One writer: one-phase commit, no prepare.
StartOnePhase(t) ==
    /\ qd[t] = "active"
    /\ Unblocked(t)
    /\ Cardinality(Participants(t)) = 1
    /\ qd' = [qd EXCEPT ![t] = "onePhase"]
    /\ UNCHANGED <<nextGxid, gxid, locked, waitGxids, reply, failed, segVars, histVars>>

\* All writers have prepared and the commit is recorded.
PrepareAndRecord(t) ==
    /\ qd[t] = "active"
    /\ Unblocked(t)
    /\ Cardinality(Participants(t)) > 1
    /\ qd' = [qd EXCEPT ![t] = "notifying"]
    /\ xact' = [s \in Seg |-> [xact[s] EXCEPT ![t] = IF @ = "running" THEN "prepared" ELSE @]]
    /\ UNCHANGED <<nextGxid, gxid, locked, waitGxids, reply, failed, writers, blocker, sleeping, qeWaits, histVars>>

\* performDtxProtocolCommitPrepared() or ...CommitOnePhase() on a segment, and
\* its answer with the waits of this QE.
CommitOnSegment(t, s) ==
    /\ qd[t] \in {"onePhase", "notifying", "retry"}
    /\ InProgress(s, t)
    /\ xact' = [xact EXCEPT ![s][t] = "committed"]
    /\ reply' = [reply EXCEPT ![t] = @ \cup qeWaits[s][t]]
    /\ qeWaits' = [qeWaits EXCEPT ![s][t] = {}]
    /\ UNCHANGED <<nextGxid, gxid, locked, qd, waitGxids, failed, writers, blocker, sleeping, histVars>>

\* An error result of 'Commit Prepared' is thrown before any waitGxids are
\* gathered; the retry goes to new QEs, which know of no waits.
DispatchFails(t) ==
    /\ qd[t] = "notifying"
    /\ Cardinality(failed) < MaxRetry
    /\ qd' = [qd EXCEPT ![t] = "retry"]
    /\ reply' = [reply EXCEPT ![t] = {}]
    /\ qeWaits' = [s \in Seg |-> [qeWaits[s] EXCEPT ![t] = {}]]
    /\ failed' = failed \cup {t}
    /\ UNCHANGED <<nextGxid, gxid, locked, waitGxids, xact, writers, blocker, sleeping, histVars>>

\* A one-phase commit is not retried: the transaction fails on the coordinator
\* whether or not the segment committed.
OnePhaseFails(t) ==
    /\ qd[t] = "onePhase"
    /\ Cardinality(failed) < MaxRetry
    /\ qd' = [qd EXCEPT ![t] = "ending"]
    /\ xact' = [s \in Seg |-> [xact[s] EXCEPT ![t] = IF @ = "running" THEN "aborted" ELSE @]]
    /\ failed' = failed \cup {t}
    /\ UNCHANGED <<nextGxid, gxid, locked, waitGxids, reply, writers, blocker, sleeping, qeWaits, histVars>>

\* All answers are in: their waitGxids, if there are any, replace the list.
GatherWaits(t) ==
    /\ qd[t] \in {"onePhase", "notifying", "retry"}
    /\ \A s \in Participants(t) : xact[s][t] = "committed"
    /\ qd' = [qd EXCEPT ![t] = "waiting"]
    /\ waitGxids' = [waitGxids EXCEPT ![t] = IF reply[t] = {} THEN @ ELSE reply[t]]
    /\ UNCHANGED <<nextGxid, gxid, locked, reply, failed, segVars, histVars>>

\* GxactLockTableWait() for each gxid of the list, in notifyCommittedDtxTransaction().
\* A released lock is never taken again, so the waits are over when none is held.
GxactLockTableWait(t) ==
    /\ qd[t] = "waiting"
    /\ waitGxids[t] \cap locked = {}
    /\ qd' = [qd EXCEPT ![t] = "ending"]
    /\ UNCHANGED <<nextGxid, gxid, locked, waitGxids, reply, failed, segVars, histVars>>

\* ProcArrayEndTransaction(): snapshots take the transaction as completed.
ProcArrayEndTransaction(t) ==
    /\ qd[t] = "ending"
    /\ qd' = [qd EXCEPT ![t] = "ended"]
    /\ waitGxids' = [waitGxids EXCEPT ![t] = {}]
    /\ UNCHANGED <<nextGxid, gxid, locked, reply, failed, segVars, histVars>>

\* Fault: the lock on the gxid is never released.
ReleaseNever(t) ==
    /\ FALSE
    /\ UNCHANGED vars

\* ResourceOwnerRelease(): the lock on the gxid goes after that.
ReleaseLocks(t) ==
    /\ qd[t] = "ended"
    /\ gxid[t] \in locked
    /\ locked' = locked \ {gxid[t]}
    /\ UNCHANGED <<nextGxid, gxid, qd, waitGxids, reply, failed, segVars, histVars>>

-----------------------------------------------------------------------------
Next ==
    \E t \in Gxact :
        \/ currentDtxActivate(t)
        \/ \E s \in Seg : \/ FindBlocker(t, s)
                          \/ ReportWait(t, s)
                          \/ EndWait(t, s)
                          \/ WriteRow(t, s)
                          \/ CommitOnSegment(t, s)
        \/ AbortTransaction(t)
        \/ StartOnePhase(t)
        \/ PrepareAndRecord(t)
        \/ DispatchFails(t)
        \/ OnePhaseFails(t)
        \/ GatherWaits(t)
        \/ GxactLockTableWait(t)
        \/ ProcArrayEndTransaction(t)
        \/ ReleaseLocks(t)

Spec == Init /\ [][Next]_vars

\* A commit that has been decided is carried out: the QD and the segments run
\* on.  The user and failures owe nothing.
Fairness ==
    \A t \in Gxact :
        /\ \A s \in Seg : WF_vars(CommitOnSegment(t, s))
        /\ WF_vars(GatherWaits(t))
        /\ WF_vars(GxactLockTableWait(t))
        /\ WF_vars(ProcArrayEndTransaction(t))
        /\ WF_vars(ReleaseLocks(t))

FairSpec == Spec /\ Fairness

-----------------------------------------------------------------------------
Ended(t) == qd[t] = "ended"

Fits(t) == gxid[t] < SignBit

Committed(t) == \E s \in Seg : xact[s][t] = "committed"

\* A snapshot that sees the second transaction sees the first.
InOrder(p) == (Ended(p.second) /\ Committed(p.second)) => Ended(p.first)

Waited(p, states) ==
    \E r \in reports : r.seg = p.seg /\ r.first = p.first /\ r.second = p.second /\ r.state \in states

\* When a QE waited for a writer that was running or had just committed, and
\* then wrote on top of it, no snapshot of the coordinator takes the second
\* transaction as completed and the first as in progress: a reader never sees
\* two versions of the row.  Holds for commits that were not retried and gxids
\* that fit in an int.
WaitedOrder ==
    \A p \in order :
        (Waited(p, {"running", "committed"}) /\ p.second \notin failed /\ Fits(p.first)) => InOrder(p)

\* Coordinators never wait for each other in a circle: a recorded commit ends.
NoWaitCycle ==
    \A t \in Gxact : (qd[t] \in {"notifying", "retry", "waiting"}) ~> Ended(t)
=============================================================================
