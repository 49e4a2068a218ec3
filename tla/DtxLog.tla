------------------------------- MODULE DtxLog -------------------------------
(***************************************************************************)
(* The coordinator's record of distributed commits: the write-ahead log,   *)
(* the checkpoint record that carries the committed-but-not-forgotten      *)
(* transactions (TMGXACT_CHECKPOINT), the checkpointer that writes it      *)
(* while backends commit, a crash that cuts the log anywhere after what    *)
(* was flushed, and the start-up replay that rebuilds                      *)
(* shmCommittedGxidArray.                                                  *)
(*                                                                         *)
(* An LSN is the number of a record.  Only the records the replay of       *)
(* distributed transactions looks at are kept in wal; a checkpoint record  *)
(* takes an LSN and its content is ckpt, the one the control file names.   *)
(***************************************************************************)
EXTENDS Integers, FiniteSets

CONSTANTS
    Gxid,            \* distributed transaction ids, one per transaction
    MaxConnections,  \* QD backends that can be in a commit at one time
    MaxTmGxacts,     \* size of shmCommittedGxidArray (MaxBackends)
    MaxCrash,        \* bound: coordinator crashes
    MaxCkpt,         \* bound: checkpoints started
    MaxRecRestart    \* bound: restarts of the DTX recovery process

ASSUME LogAssumption ==
    /\ MaxConnections \in Nat \ {0}
    /\ MaxTmGxacts \in Nat \ {0}
    /\ MaxConnections <= MaxTmGxacts
    /\ MaxCrash \in Nat
    /\ MaxCkpt \in Nat
    /\ MaxRecRestart \in Nat

VARIABLES
    wal,            \* commit and forget records, on disk or in the WAL buffers
    insertLsn,      \* LSN of the last record inserted
    flushLsn,       \* every record up to here is on disk
    ckpt,           \* [redo, committed]: checkpoint the control file points to
    up,             \* the coordinator runs
    delayChkpt,     \* backends with MyProc->delayChkpt, by gxid
    includeInCkpt,  \* backends with MyTmGxact->includeInCkpt, by gxid
    shmCommitted,   \* shmCommittedGxidArray[0 .. *shmNumCommittedGxacts - 1]
    recDone,        \* entries of it that recoverInDoubtTransactions() has done
    ckptPc,         \* where CreateCheckPoint() is
    ckptRedo,       \* checkPoint.redo of the running checkpoint
    ckptWait,       \* vxids: the backends the running checkpoint waits for
    ckptList,       \* dtxCheckPointInfo of the running checkpoint
    crashes, ckpts, recRestarts   \* counters of the bounds

walVars  == <<wal, insertLsn, flushLsn>>
memVars  == <<delayChkpt, includeInCkpt>>
recVars  == <<shmCommitted, recDone>>
ckptVars == <<ckptPc, ckptRedo, ckptWait, ckptList>>
budgets  == <<crashes, ckpts, recRestarts>>
logVars  == <<walVars, ckpt, up, memVars, recVars, ckptVars, budgets>>

Record == [lsn : Nat, kind : {"commit", "forget"}, gxid : Gxid]

LogTypeOK ==
    /\ wal \subseteq Record
    /\ insertLsn \in Nat
    /\ flushLsn \in Nat
    /\ ckpt \in [redo : Nat, committed : SUBSET Gxid]
    /\ up \in BOOLEAN
    /\ delayChkpt \subseteq Gxid
    /\ includeInCkpt \subseteq Gxid
    /\ shmCommitted \subseteq Gxid
    /\ recDone \subseteq Gxid
    /\ ckptPc \in {"idle", "redo", "wait", "info", "write"}
    /\ ckptRedo \in Nat
    /\ ckptWait \subseteq Gxid
    /\ ckptList \subseteq Gxid
    /\ crashes \in 0 .. MaxCrash
    /\ ckpts \in 0 .. MaxCkpt
    /\ recRestarts \in 0 .. MaxRecRestart

-----------------------------------------------------------------------------
(* Reading the log *)

Logged(kind, g, from, to) ==
    \E r \in wal : r.kind = kind /\ r.gxid = g /\ from < r.lsn /\ r.lsn <= to

HasCommit(g) == \E r \in wal : r.kind = "commit" /\ r.gxid = g
HasForget(g) == \E r \in wal : r.kind = "forget" /\ r.gxid = g

\* A distributed commit that no crash can take back.
Durable(g) ==
    \E r \in wal : r.kind = "commit" /\ r.gxid = g /\ r.lsn <= flushLsn

\* shmCommittedGxidArray once the start-up process has loaded the checkpoint
\* record and replayed the log from its REDO pointer up to LSN end.
Replay(end) ==
    {g \in Gxid : /\ g \in ckpt.committed \/ Logged("commit", g, ckpt.redo, end)
                  /\ ~ Logged("forget", g, ckpt.redo, end)}

-----------------------------------------------------------------------------
LogInit ==
    /\ wal = {}
    /\ insertLsn = 0
    /\ flushLsn = 0
    /\ ckpt = [redo |-> 0, committed |-> {}]
    /\ up = TRUE
    /\ delayChkpt = {}
    /\ includeInCkpt = {}
    /\ shmCommitted = {}
    /\ recDone = {}
    /\ ckptPc = "idle"
    /\ ckptRedo = 0
    /\ ckptWait = {}
    /\ ckptList = {}
    /\ crashes = 0
    /\ ckpts = 0
    /\ recRestarts = 0

XLogInsert(kind, g) ==
    /\ insertLsn' = insertLsn + 1
    /\ wal' = wal \cup {[lsn |-> insertLsn + 1, kind |-> kind, gxid |-> g]}

-----------------------------------------------------------------------------
(* RecordTransactionCommit() of a backend whose transaction is prepared.   *)

\* START_CRIT_SECTION; MyProc->delayChkpt = true.  One backend per connection.
SetDelayChkpt(g) ==
    /\ up
    /\ ~ HasCommit(g)
    /\ g \notin delayChkpt
    /\ Cardinality(delayChkpt \cup includeInCkpt) < MaxConnections
    /\ delayChkpt' = delayChkpt \cup {g}
    /\ UNCHANGED <<walVars, ckpt, up, includeInCkpt, recVars, ckptVars, budgets>>

\* insertingDistributedCommitted() and the XLogInsert of the commit record.
insertingDistributedCommitted(g) ==
    /\ up
    /\ g \in delayChkpt
    /\ ~ HasCommit(g)
    /\ XLogInsert("commit", g)
    /\ UNCHANGED <<flushLsn, ckpt, up, memVars, recVars, ckptVars, budgets>>
\* Fault: includeInCkpt is set before the record is inserted.
IncludedBeforeInsert(g) ==
    /\ up
    /\ g \in delayChkpt \ includeInCkpt
    /\ includeInCkpt' = includeInCkpt \cup {g}
    /\ UNCHANGED <<walVars, ckpt, up, delayChkpt, recVars, ckptVars, budgets>>

insertedDistributedCommitted(g) ==
    /\ up
    /\ g \in delayChkpt \ includeInCkpt
    /\ HasCommit(g)
    /\ includeInCkpt' = includeInCkpt \cup {g}
    /\ UNCHANGED <<walVars, ckpt, up, delayChkpt, recVars, ckptVars, budgets>>

\* XLogFlush of the commit record; MyProc->delayChkpt = false.
FlushCommitRecord(g) ==
    /\ up
    /\ g \in delayChkpt \cap includeInCkpt
    /\ \E r \in wal :
          /\ r.kind = "commit" /\ r.gxid = g
          /\ flushLsn' = IF r.lsn > flushLsn THEN r.lsn ELSE flushLsn
    /\ delayChkpt' = delayChkpt \ {g}
    /\ UNCHANGED <<wal, insertLsn, ckpt, up, includeInCkpt, recVars, ckptVars, budgets>>

-----------------------------------------------------------------------------
(* doInsertForgetCommitted(): the record is not flushed.                   *)

RecordDistributedForgetCommitted(g) ==
    /\ up
    /\ g \in includeInCkpt \ delayChkpt
    /\ ~ HasForget(g)
    /\ XLogInsert("forget", g)
    /\ UNCHANGED <<flushLsn, ckpt, up, memVars, recVars, ckptVars, budgets>>

ClearIncludeInCkpt(g) ==
    /\ up
    /\ g \in includeInCkpt
    /\ HasForget(g)
    /\ includeInCkpt' = includeInCkpt \ {g}
    /\ UNCHANGED <<walVars, ckpt, up, delayChkpt, recVars, ckptVars, budgets>>

\* Any other backend or the WAL writer flushes the log as far as it goes.
XLogBackgroundFlush ==
    /\ up
    /\ flushLsn < insertLsn
    /\ flushLsn' = insertLsn
    /\ UNCHANGED <<wal, insertLsn, ckpt, up, memVars, recVars, ckptVars, budgets>>

-----------------------------------------------------------------------------
(* CreateCheckPoint() in the order of its steps.                           *)
\* Fault: the last record is counted twice.
CkptSetRedoOffByOne ==
    /\ up
    /\ ckptPc = "idle"
    /\ ckpts < MaxCkpt
    /\ ckpts' = ckpts + 1
    /\ ckptPc' = "redo"
    /\ ckptRedo' = insertLsn - 1
    /\ UNCHANGED <<walVars, ckpt, up, memVars, recVars, ckptWait, ckptList, crashes, recRestarts>>

CkptSetRedo ==
    /\ up
    /\ ckptPc = "idle"
    /\ ckpts < MaxCkpt
    /\ ckpts' = ckpts + 1
    /\ ckptPc' = "redo"
    /\ ckptRedo' = insertLsn
    /\ UNCHANGED <<walVars, ckpt, up, memVars, recVars, ckptWait, ckptList, crashes, recRestarts>>

\* GetVirtualXIDsDelayingChkpt()
CkptGetDelaying ==
    /\ up
    /\ ckptPc = "redo"
    /\ ckptPc' = "wait"
    /\ ckptWait' = delayChkpt
    /\ UNCHANGED <<walVars, ckpt, up, memVars, recVars, ckptRedo, ckptList, budgets>>
\* Fault: the checkpointer does not wait for the backends it has found.
CkptNotWaited ==
    /\ up
    /\ ckptPc = "wait"
    /\ ckptPc' = "info"
    /\ ckptWait' = {}
    /\ UNCHANGED <<walVars, ckpt, up, memVars, recVars, ckptRedo, ckptList, budgets>>

\* HaveVirtualXIDsDelayingChkpt() returned false.
CkptWaited ==
    /\ up
    /\ ckptPc = "wait"
    /\ ckptWait \cap delayChkpt = {}
    /\ ckptPc' = "info"
    /\ ckptWait' = {}
    /\ UNCHANGED <<walVars, ckpt, up, memVars, recVars, ckptRedo, ckptList, budgets>>

getDtxCheckPointInfo ==
    /\ up
    /\ ckptPc = "info"
    /\ ckptPc' = "write"
    /\ ckptList' = shmCommitted \cup includeInCkpt
    /\ UNCHANGED <<walVars, ckpt, up, memVars, recVars, ckptRedo, ckptWait, budgets>>

\* The checkpoint record is inserted and flushed; the control file points to it.
CkptWrite ==
    /\ up
    /\ ckptPc = "write"
    /\ insertLsn' = insertLsn + 1
    /\ flushLsn' = insertLsn + 1
    /\ ckpt' = [redo |-> ckptRedo, committed |-> ckptList]
    /\ ckptPc' = "idle"
    /\ ckptRedo' = 0
    /\ ckptList' = {}
    /\ UNCHANGED <<wal, up, memVars, recVars, ckptWait, budgets>>

-----------------------------------------------------------------------------
(* Crash and restart.                                                      *)

\* The log survives up to some LSN at or after the last flush; shared memory
\* is lost.
Crash ==
    /\ up
    /\ crashes < MaxCrash
    /\ crashes' = crashes + 1
    /\ up' = FALSE
    /\ \E cut \in flushLsn .. insertLsn :
          /\ wal' = {r \in wal : r.lsn <= cut}
          /\ insertLsn' = cut
          /\ flushLsn' = cut
    /\ delayChkpt' = {}
    /\ includeInCkpt' = {}
    /\ shmCommitted' = {}
    /\ recDone' = {}
    /\ ckptPc' = "idle"
    /\ ckptRedo' = 0
    /\ ckptWait' = {}
    /\ ckptList' = {}
    /\ UNCHANGED <<ckpt, ckpts, recRestarts>>

\* redoDistributedCommitRecord() stops the start-up with FATAL when the array
\* is full; it is loaded from the checkpoint record and then changed by one
\* log record after another.
ReplayFits ==
    \A end \in ckpt.redo .. insertLsn : Cardinality(Replay(end)) <= MaxTmGxacts

\* StartupXLOG(): replay, then the end-of-recovery checkpoint.
StartupXLOG ==
    /\ ~ up
    /\ ReplayFits
    /\ up' = TRUE
    /\ shmCommitted' = Replay(insertLsn)
    /\ insertLsn' = insertLsn + 1
    /\ flushLsn' = insertLsn + 1
    /\ ckpt' = [redo |-> insertLsn, committed |-> Replay(insertLsn)]
    /\ UNCHANGED <<wal, memVars, recDone, ckptVars, budgets>>

-----------------------------------------------------------------------------
(* The log side of recoverInDoubtTransactions(), in the DTX recovery       *)
(* process.                                                                *)

RecoveryForget(g) ==
    /\ up
    /\ g \in shmCommitted \ recDone
    /\ XLogInsert("forget", g)
    /\ recDone' = recDone \cup {g}
    /\ UNCHANGED <<flushLsn, ckpt, up, memVars, shmCommitted, ckptVars, budgets>>
\* Fault: the array is emptied before its last entry is done.
RecoveryClearEarly ==
    /\ up
    /\ shmCommitted' = {}
    /\ recDone' = {}
    /\ UNCHANGED <<walVars, ckpt, up, memVars, ckptVars, budgets>>

\* *shmNumCommittedGxacts = 0
RecoveryClear ==
    /\ up
    /\ shmCommitted \subseteq recDone
    /\ shmCommitted' = {}
    /\ recDone' = {}
    /\ UNCHANGED <<walVars, ckpt, up, memVars, ckptVars, budgets>>

\* doNotifyCommittedInDoubt() raised FATAL: the process is started again and
\* goes through the array from its first entry.
RecoveryRestart ==
    /\ up
    /\ recRestarts < MaxRecRestart
    /\ recRestarts' = recRestarts + 1
    /\ recDone' = {}
    /\ UNCHANGED <<walVars, ckpt, up, memVars, shmCommitted, ckptVars, crashes, ckpts>>

-----------------------------------------------------------------------------
LogNext ==
    \/ \E g \in Gxid :
          \/ SetDelayChkpt(g)
          \/ insertingDistributedCommitted(g)
          \/ insertedDistributedCommitted(g)
          \/ FlushCommitRecord(g)
          \/ RecordDistributedForgetCommitted(g)
          \/ ClearIncludeInCkpt(g)
          \/ RecoveryForget(g)
    \/ XLogBackgroundFlush
    \/ CkptSetRedo
    \/ CkptGetDelaying
    \/ CkptWaited
    \/ getDtxCheckPointInfo
    \/ CkptWrite
    \/ Crash
    \/ StartupXLOG
    \/ RecoveryClear
    \/ RecoveryRestart

LogSpec == LogInit /\ [][LogNext]_logVars

-----------------------------------------------------------------------------
(***************************************************************************)
(* CommitNotLost: wherever a crash cuts the log, a distributed commit      *)
(* record that survives and has no surviving forget record is found again  *)
(* by the replay, from the log or from the checkpoint record.  This is     *)
(* what delayChkpt, includeInCkpt and the order of CreateCheckPoint() are  *)
(* for (xlog.c, comment before getDtxCheckPointInfo()).                    *)
(***************************************************************************)
CommitNotLost ==
    \A end \in flushLsn .. insertLsn : \A g \in Gxid :
        Logged("commit", g, 0, end) /\ ~ Logged("forget", g, 0, end)
            => g \in Replay(end)

(***************************************************************************)
(* NoPhantomCommit: the replay never finds a transaction whose commit      *)
(* record the crash has taken away: the checkpoint record is flushed after *)
(* every commit record it stands for.                                      *)
(***************************************************************************)
NoPhantomCommit ==
    \A end \in flushLsn .. insertLsn : \A g \in Replay(end) : Logged("commit", g, 0, end)

(***************************************************************************)
(* PendingCommitKept: after a restart, until the recovery process has      *)
(* written the forget record, a durable and never forgotten commit is in   *)
(* shmCommittedGxidArray (or belongs to a running backend), so it cannot   *)
(* be taken for an orphan and rolled back.                                 *)
(***************************************************************************)
PendingCommitKept ==
    up => \A g \in Gxid :
        HasCommit(g) /\ ~ HasForget(g) => g \in shmCommitted \cup includeInCkpt \cup delayChkpt

(***************************************************************************)
(* ReplayNeverOverflows: the array of committed transactions is large      *)
(* enough for every replay ("It should not happen",                        *)
(* redoDistributedCommitRecord(); "MaxConnections should be fine also",    *)
(* tmShmemInit()).                                                         *)
(***************************************************************************)
ReplayNeverOverflows == ~ up => ReplayFits
-----------------------------------------------------------------------------
(***************************************************************************)
(* The inductive invariant behind CommitNotLost, NoPhantomCommit and       *)
(* PendingCommitKept.                                                      *)
(***************************************************************************)

\* LSNs are ordered as they should be; a crash empties shared memory.
LsnOrder ==
    /\ flushLsn <= insertLsn
    /\ ckpt.redo <= flushLsn
    /\ ckptRedo <= insertLsn
    /\ \A r \in wal : 0 < r.lsn /\ r.lsn <= insertLsn
    /\ ~ up => /\ flushLsn = insertLsn
               /\ delayChkpt = {} /\ includeInCkpt = {} /\ shmCommitted = {} /\ recDone = {}
               /\ ckptPc = "idle"

\* What shared memory says of a transaction is in the log.
MemoryLogged ==
    /\ \A g \in includeInCkpt : HasCommit(g)
    /\ \A g \in shmCommitted : Durable(g)
    /\ \A g \in recDone : HasForget(g)

\* The checkpoint in force: commits before its REDO pointer are listed or
\* durably forgotten, and what it lists is durable.
CkptComplete ==
    /\ \A r \in wal : r.kind = "commit" /\ r.lsn <= ckpt.redo =>
          r.gxid \in ckpt.committed \/ Logged("forget", r.gxid, 0, flushLsn)
    /\ \A g \in ckpt.committed : Durable(g)

\* The checkpoint in the making: the commits before its REDO pointer that it
\* will list are these.
RunningCkptSources ==
    CASE ckptPc = "wait"  -> shmCommitted \cup includeInCkpt \cup (ckptWait \cap delayChkpt)
      [] ckptPc = "info"  -> shmCommitted \cup includeInCkpt
      [] ckptPc = "write" -> ckptList
      [] OTHER            -> Gxid

RunningCkptComplete ==
    /\ \A r \in wal : r.kind = "commit" /\ r.lsn <= ckptRedo =>
          HasForget(r.gxid) \/ r.gxid \in RunningCkptSources
    /\ \A g \in ckptList : HasCommit(g)

LogInv ==
    /\ LogTypeOK
    /\ LsnOrder
    /\ MemoryLogged
    /\ CkptComplete
    /\ RunningCkptComplete
    /\ PendingCommitKept
=============================================================================
