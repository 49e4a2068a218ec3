------------------------------ MODULE GxidGen ------------------------------
(***************************************************************************)
(* Distributed transaction ids.  Backends of the coordinator take ids from *)
(* a batch in shared memory (nextGxid, GxidCount).  Before a batch grows,  *)
(* its new end is logged and flushed (XLOG_NEXTGXID); a checkpoint carries *)
(* the end it saw; a crash takes the log back to any point after the last  *)
(* flush, and the start-up begins at the end of the last batch it finds.   *)
(***************************************************************************)
EXTENDS Integers

CONSTANTS
    Backend,      \* QD backends
    Dtr,          \* the DTX recovery process, which prefetches ids
    PrefetchNum,  \* gp_gxid_prefetch_num
    MaxGxid,      \* bound: no transaction starts when this id is in the batch
    MaxCrash,     \* bound: crashes and shutdowns
    MaxCkpt       \* bound: checkpoints

Proc == Backend \cup {Dtr}
NoProc == "nobody"

\* GXID_PRETCH_THRESHOLD
Threshold == PrefetchNum \div 2

ASSUME GxidAssumption ==
    /\ PrefetchNum \in Nat \ {0}
    /\ MaxGxid \in Nat
    /\ MaxCrash \in Nat
    /\ MaxCkpt \in Nat
    /\ Dtr \notin Backend
    /\ NoProc \notin Proc

VARIABLES
    nextGxid, GxidCount,   \* ShmemVariableCache
    bumpLock,   \* holder of GxidBumpLock
    nextLimit,  \* nextLimit of the holder
    bumpEvent,  \* DTX_RECOVERY_EVENT_BUMP_GXID
    dtrWoken,   \* the recovery process bumps because of the event
    pc,         \* where each process is
    gxid,       \* MyTmGxact->gxid, 0: none
    wal,        \* XLOG_NEXTGXID records
    insertLsn, flushLsn,
    ckpt,       \* the checkpoint the control file names
    ckptPc, ckptRedo, ckptGxid,   \* the checkpoint in the making
    up,
    handed,     \* history: ids ever handed out
    crashes, ckpts   \* counters of the bounds

shmVars  == <<nextGxid, GxidCount, bumpLock, nextLimit, bumpEvent>>
walVars  == <<wal, insertLsn, flushLsn>>
ckptVars == <<ckptPc, ckptRedo, ckptGxid, ckpts>>
procVars == <<pc, gxid, handed, dtrWoken>>
vars == <<shmVars, walVars, ckpt, ckptVars, procVars, up, crashes>>

Record == [lsn : Nat, limit : Nat]

\* idle; loop: the retry loop of currentDtxActivate(); bump, waitLock, insert,
\* flush, add: inside bumpGxid(); take: past the test of GxidCount; running:
\* in a transaction.
BackendPc == {"idle", "loop", "bump", "waitLock", "insert", "flush", "add", "take", "running"}
DtrPc == {"main", "bump", "waitLock", "insert", "flush", "add", "reset"}

TypeOK ==
    /\ nextGxid \in Nat \ {0}
    /\ GxidCount \in Nat
    /\ bumpLock \in Proc \cup {NoProc}
    /\ nextLimit \in Nat
    /\ bumpEvent \in BOOLEAN
    /\ dtrWoken \in BOOLEAN
    /\ pc \in [Proc -> BackendPc \cup DtrPc]
    /\ gxid \in [Backend -> Nat]
    /\ wal \subseteq Record
    /\ insertLsn \in Nat
    /\ flushLsn \in Nat
    /\ ckpt \in [redo : Nat, nextGxid : Nat]
    /\ ckptPc \in {"idle", "redo", "write"}
    /\ ckptRedo \in Nat
    /\ ckptGxid \in Nat
    /\ up \in BOOLEAN
    /\ handed \subseteq Nat
    /\ crashes \in 0 .. MaxCrash
    /\ ckpts \in 0 .. MaxCkpt

-----------------------------------------------------------------------------
(* The counter the start-up process ends with when the log is cut at LSN   *)
(* end: the checkpoint's, or that of the last XLOG_NEXTGXID after REDO.    *)

Replayed(end) == {r \in wal : ckpt.redo < r.lsn /\ r.lsn <= end}

IsRestartGxid(g, end) ==
    \/ Replayed(end) = {} /\ g = ckpt.nextGxid
    \/ \E r \in Replayed(end) : /\ \A q \in Replayed(end) : q.lsn <= r.lsn
                                /\ g = r.limit

-----------------------------------------------------------------------------
Init ==
    /\ nextGxid = 1
    /\ GxidCount = 0
    /\ bumpLock = NoProc
    /\ nextLimit = 0
    /\ bumpEvent = FALSE
    /\ dtrWoken = FALSE
    /\ pc = [p \in Proc |-> IF p = Dtr THEN "bump" ELSE "idle"]
    /\ gxid = [b \in Backend |-> 0]
    /\ wal = {}
    /\ insertLsn = 0
    /\ flushLsn = 0
    /\ ckpt = [redo |-> 0, nextGxid |-> 1]
    /\ ckptPc = "idle"
    /\ ckptRedo = 0
    /\ ckptGxid = 0
    /\ up = TRUE
    /\ handed = {}
    /\ crashes = 0
    /\ ckpts = 0

Goto(p, from, to) ==
    /\ up
    /\ pc[p] = from
    /\ pc' = [pc EXCEPT ![p] = to]

-----------------------------------------------------------------------------
(* currentDtxActivate()                                                    *)

\* Wake the DTX recovery process when the batch runs low, enter the loop.
StartActivate(b) ==
    /\ Goto(b, "idle", "loop")
    /\ nextGxid + GxidCount <= MaxGxid
    /\ bumpEvent' = (bumpEvent \/ GxidCount <= Threshold)
    /\ UNCHANGED <<nextGxid, GxidCount, bumpLock, nextLimit, walVars, ckpt, ckptVars, gxid, handed, dtrWoken, up, crashes>>

\* The test of GxidCount outside of shmGxidGenLock.
TestCount(b) ==
    /\ Goto(b, "loop", IF GxidCount = 0 THEN "bump" ELSE "take")
    /\ UNCHANGED <<shmVars, walVars, ckpt, ckptVars, gxid, handed, dtrWoken, up, crashes>>

\* Fault: GxidCount is not tested again under the lock.
TakeUntested(b) ==
    /\ Goto(b, "take", "running")
    /\ gxid' = [gxid EXCEPT ![b] = nextGxid]
    /\ handed' = handed \cup {nextGxid}
    /\ nextGxid' = nextGxid + 1
    /\ GxidCount' = GxidCount - 1
    /\ UNCHANGED <<bumpLock, nextLimit, bumpEvent, dtrWoken, walVars, ckpt, ckptVars, up, crashes>>

\* Under shmGxidGenLock: take an id or go round the loop.
TakeGxid(b) ==
    /\ Goto(b, "take", IF GxidCount > 0 THEN "running" ELSE "loop")
    /\ IF GxidCount > 0
       THEN /\ gxid' = [gxid EXCEPT ![b] = nextGxid]
            /\ handed' = handed \cup {nextGxid}
            /\ nextGxid' = nextGxid + 1
            /\ GxidCount' = GxidCount - 1
       ELSE UNCHANGED <<gxid, handed, nextGxid, GxidCount>>
    /\ UNCHANGED <<bumpLock, nextLimit, bumpEvent, dtrWoken, walVars, ckpt, ckptVars, up, crashes>>

\* ProcArrayEndGxact() at the end of the transaction.
EndGxact(b) ==
    /\ Goto(b, "running", "idle")
    /\ gxid' = [gxid EXCEPT ![b] = 0]
    /\ UNCHANGED <<shmVars, walVars, ckpt, ckptVars, handed, dtrWoken, up, crashes>>

-----------------------------------------------------------------------------
(* bumpGxid(), of a backend that found no id or of the recovery process.   *)

AfterBump(p) ==
    IF p # Dtr THEN "take" ELSE IF dtrWoken THEN "reset" ELSE "main"

\* LWLockAcquireOrWait() with the lock held: wait until it is free, then
\* return without it.
BumpBlocked(p) ==
    /\ Goto(p, "bump", "waitLock")
    /\ bumpLock # NoProc
    /\ UNCHANGED <<shmVars, walVars, ckpt, ckptVars, gxid, handed, dtrWoken, up, crashes>>

BumpWaited(p) ==
    /\ Goto(p, "waitLock", AfterBump(p))
    /\ bumpLock = NoProc
    /\ UNCHANGED <<shmVars, walVars, ckpt, ckptVars, gxid, handed, dtrWoken, up, crashes>>

\* Fault: the early return keeps the lock.
BumpKeepsLock(p) ==
    /\ bumpLock = NoProc
    /\ bumpLock' = p
    /\ \/ /\ GxidCount > Threshold
          /\ Goto(p, "bump", AfterBump(p))
          /\ UNCHANGED nextLimit
       \/ /\ GxidCount <= Threshold
          /\ Goto(p, "bump", "insert")
          /\ nextLimit' = nextGxid + GxidCount + PrefetchNum
    /\ UNCHANGED <<nextGxid, GxidCount, bumpEvent, walVars, ckpt, ckptVars, gxid, handed, dtrWoken, up, crashes>>

\* With the lock: return if there are enough ids, else fix the new limit.
BumpLimit(p) ==
    /\ bumpLock = NoProc
    /\ \/ /\ GxidCount > Threshold
          /\ Goto(p, "bump", AfterBump(p))
          /\ UNCHANGED <<bumpLock, nextLimit>>
       \/ /\ GxidCount <= Threshold
          /\ Goto(p, "bump", "insert")
          /\ bumpLock' = p
          /\ nextLimit' = nextGxid + GxidCount + PrefetchNum
    /\ UNCHANGED <<nextGxid, GxidCount, bumpEvent, walVars, ckpt, ckptVars, gxid, handed, dtrWoken, up, crashes>>

\* XLogPutNextGxid()
PutNextGxid(p) ==
    /\ Goto(p, "insert", "flush")
    /\ insertLsn' = insertLsn + 1
    /\ wal' = wal \cup {[lsn |-> insertLsn + 1, limit |-> nextLimit]}
    /\ UNCHANGED <<shmVars, flushLsn, ckpt, ckptVars, gxid, handed, dtrWoken, up, crashes>>

\* Fault: the record is inserted and not flushed.
FlushForgotten(p) ==
    /\ Goto(p, "flush", "add")
    /\ UNCHANGED <<shmVars, walVars, ckpt, ckptVars, gxid, handed, dtrWoken, up, crashes>>

FlushNextGxid(p) ==
    /\ Goto(p, "flush", "add")
    /\ flushLsn' = insertLsn
    /\ UNCHANGED <<shmVars, wal, insertLsn, ckpt, ckptVars, gxid, handed, dtrWoken, up, crashes>>

BumpCount(p) ==
    /\ Goto(p, "add", AfterBump(p))
    /\ GxidCount' = GxidCount + PrefetchNum
    /\ bumpLock' = NoProc
    /\ UNCHANGED <<nextGxid, nextLimit, bumpEvent, walVars, ckpt, ckptVars, gxid, handed, dtrWoken, up, crashes>>

bumpGxid(p) ==
    \/ BumpBlocked(p)
    \/ BumpWaited(p)
    \/ BumpLimit(p)
    \/ PutNextGxid(p)
    \/ FlushNextGxid(p)
    \/ BumpCount(p)

\* DtxRecoveryMain(): a first bump, then the loop.
DtxRecoveryWakes ==
    /\ bumpEvent
    /\ Goto(Dtr, "main", "bump")
    /\ dtrWoken' = TRUE
    /\ UNCHANGED <<shmVars, walVars, ckpt, ckptVars, gxid, handed, up, crashes>>

ResetDtxRecoveryEvent ==
    /\ Goto(Dtr, "reset", "main")
    /\ bumpEvent' = FALSE
    /\ dtrWoken' = FALSE
    /\ UNCHANGED <<nextGxid, GxidCount, bumpLock, nextLimit, walVars, ckpt, ckptVars, gxid, handed, up, crashes>>

-----------------------------------------------------------------------------
(* CreateCheckPoint()                                                      *)

CkptSetRedo ==
    /\ up
    /\ ckptPc = "idle"
    /\ ckpts < MaxCkpt
    /\ ckpts' = ckpts + 1
    /\ ckptPc' = "redo"
    /\ ckptRedo' = insertLsn
    /\ UNCHANGED <<shmVars, walVars, ckpt, ckptGxid, procVars, up, crashes>>

\* Fault: GxidBumpLock is not taken.
CkptReadsUnderBump ==
    /\ up
    /\ ckptPc = "redo"
    /\ ckptPc' = "write"
    /\ ckptGxid' = nextGxid + GxidCount
    /\ UNCHANGED <<shmVars, walVars, ckpt, ckptRedo, ckpts, procVars, up, crashes>>

\* With GxidBumpLock (shared) and shmGxidGenLock.
CkptReadGxid ==
    /\ up
    /\ ckptPc = "redo"
    /\ bumpLock = NoProc
    /\ ckptPc' = "write"
    /\ ckptGxid' = nextGxid + GxidCount
    /\ UNCHANGED <<shmVars, walVars, ckpt, ckptRedo, ckpts, procVars, up, crashes>>

\* The checkpoint record is inserted and flushed, the control file written.
CkptWrite ==
    /\ up
    /\ ckptPc = "write"
    /\ insertLsn' = insertLsn + 1
    /\ flushLsn' = insertLsn + 1
    /\ ckpt' = [redo |-> ckptRedo, nextGxid |-> ckptGxid]
    /\ ckptPc' = "idle"
    /\ UNCHANGED <<shmVars, wal, ckptRedo, ckptGxid, ckpts, procVars, up, crashes>>

\* The WAL writer, or the flush of some other record.
XLogBackgroundFlush ==
    /\ up
    /\ flushLsn < insertLsn
    /\ flushLsn' = insertLsn
    /\ UNCHANGED <<shmVars, wal, insertLsn, ckpt, ckptVars, procVars, up, crashes>>

-----------------------------------------------------------------------------
Stopped ==
    /\ up' = FALSE
    /\ bumpLock' = NoProc
    /\ bumpEvent' = FALSE
    /\ dtrWoken' = FALSE
    /\ pc' = [p \in Proc |-> IF p = Dtr THEN "bump" ELSE "idle"]
    /\ gxid' = [b \in Backend |-> 0]
    /\ ckptPc' = "idle"
    /\ UNCHANGED <<nextGxid, GxidCount, nextLimit, ckptRedo, ckptGxid, ckpts, handed>>

Crash ==
    /\ up
    /\ crashes < MaxCrash
    /\ crashes' = crashes + 1
    /\ \E cut \in flushLsn .. insertLsn :
          /\ wal' = {r \in wal : r.lsn <= cut}
          /\ insertLsn' = cut
          /\ flushLsn' = cut
    /\ Stopped
    /\ UNCHANGED ckpt

\* An orderly shutdown: nobody runs, and the rest of the batch is given up.
ShutdownCheckpoint ==
    /\ up
    /\ crashes < MaxCrash
    /\ crashes' = crashes + 1
    /\ \A b \in Backend : pc[b] = "idle"
    /\ pc[Dtr] = "main"
    /\ ckptPc = "idle"
    /\ insertLsn' = insertLsn + 1
    /\ flushLsn' = insertLsn + 1
    /\ ckpt' = [redo |-> insertLsn, nextGxid |-> nextGxid]
    /\ Stopped
    /\ UNCHANGED wal

\* Replay, then the end-of-recovery checkpoint.
StartupXLOG ==
    /\ ~ up
    /\ up' = TRUE
    /\ \E g \in {ckpt.nextGxid} \cup {r.limit : r \in wal} :
          /\ IsRestartGxid(g, insertLsn)
          /\ nextGxid' = g
          /\ ckpt' = [redo |-> insertLsn, nextGxid |-> g]
    /\ GxidCount' = 0
    /\ insertLsn' = insertLsn + 1
    /\ flushLsn' = insertLsn + 1
    /\ UNCHANGED <<bumpLock, nextLimit, bumpEvent, wal, ckptVars, procVars, crashes>>

-----------------------------------------------------------------------------
Activate(b) == StartActivate(b) \/ TestCount(b) \/ TakeGxid(b)
Recovery == DtxRecoveryWakes \/ ResetDtxRecoveryEvent
Checkpoint == CkptSetRedo \/ CkptReadGxid \/ CkptWrite

Next ==
    \/ \E b \in Backend : Activate(b) \/ EndGxact(b)
    \/ \E p \in Proc : bumpGxid(p)
    \/ Recovery
    \/ Checkpoint
    \/ XLogBackgroundFlush
    \/ Crash
    \/ ShutdownCheckpoint
    \/ StartupXLOG

Spec == Init /\ [][Next]_vars

\* Processes are scheduled and the postmaster restarts after a crash; nobody
\* has to start a transaction or a checkpoint.
Fairness ==
    /\ \A b \in Backend : WF_vars(TestCount(b) \/ TakeGxid(b))
    /\ \A b \in Backend : WF_vars(EndGxact(b))
    /\ \A p \in Proc : WF_vars(bumpGxid(p))
    /\ WF_vars(Recovery)
    /\ WF_vars(StartupXLOG)

FairSpec == Spec /\ Fairness

-----------------------------------------------------------------------------
(* Properties                                                              *)

(* currentDtxActivate() never hands out an id that was handed out before,  *)
(* by this incarnation of the coordinator or by one that crashed.          *)
GxidUnique ==
    [][\A b \in Backend : gxid'[b] # gxid[b] /\ gxid'[b] # 0 => gxid'[b] \notin handed]_vars

(* However the log is cut, StartupXLOG() begins above every id that was    *)
(* handed out: the limit of a batch is durable before the batch is used.   *)
RestartAbove ==
    \A end \in flushLsn .. insertLsn, g \in {ckpt.nextGxid} \cup {r.limit : r \in wal} :
        IsRestartGxid(g, end) => \A h \in handed : h < g

(* A backend in the loop of currentDtxActivate() leaves it with an id (or  *)
(* by a crash): neither GxidBumpLock nor the lost reset of the event can   *)
(* keep it there.                                                          *)
ActivateEnds == \A b \in Backend : pc[b] = "loop" ~> pc[b] \in {"running", "idle"}
=============================================================================
