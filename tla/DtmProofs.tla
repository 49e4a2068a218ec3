------------------------------ MODULE DtmProofs ------------------------------
(***************************************************************************)
(* Proofs about the coordinator's log and the distributed transaction      *)
(* manager.  Wherever a crash cuts the log, no distributed commit is lost  *)
(* and none is invented.  The steps of the manager are steps of the log,   *)
(* so that this holds of the whole system; it is type correct; the parts   *)
(* of DtmInv that do not need the others are kept by every step, and with  *)
(* them DtmInv is inductive, for any number of transactions and segments   *)
(* and any number of crashes and failures.                                 *)
(***************************************************************************)
EXTENDS DtmInvariant, FiniteSetTheorems, TLAPS

-----------------------------------------------------------------------------
(* The coordinator's log                                                    *)

USE LogAssumption

(* LogInit establishes every part of the inductive invariant. *)
LEMMA LogInitInv == LogInit => LogInv
BY DEF LogInit, LogInv, LogTypeOK, LsnOrder, MemoryLogged, CkptComplete, RunningCkptComplete,
       PendingCommitKept, HasCommit, Record

(* What the insertion of a record does to the log. *)
LEMMA InsertFacts ==
    ASSUME NEW kind \in {"commit", "forget"}, NEW g \in Gxid, LogTypeOK, LsnOrder,
           XLogInsert(kind, g)
    PROVE  /\ wal' \subseteq Record
           /\ insertLsn' \in Nat
           /\ insertLsn' = insertLsn + 1
           /\ wal \subseteq wal'
           /\ \A r \in wal' : r \in wal \/ (r.lsn = insertLsn + 1 /\ r.kind = kind /\ r.gxid = g)
           /\ \E r \in wal' : r.kind = kind /\ r.gxid = g
<1> DEFINE new == [lsn |-> insertLsn + 1, kind |-> kind, gxid |-> g]
<1>1. insertLsn + 1 \in Nat
  BY DEF LogTypeOK
<1>2. new \in Record
  BY <1>1 DEF Record
<1>3. new.lsn = insertLsn + 1 /\ new.kind = kind /\ new.gxid = g
  OBVIOUS
<1>4. wal' = wal \cup {new} /\ insertLsn' = insertLsn + 1
  BY DEF XLogInsert
<1> HIDE DEF new
<1> QED BY <1>1, <1>2, <1>3, <1>4 DEF LogTypeOK

(* The type invariant is inductive by itself but for the order of LSNs. *)
LEMMA LogTypeStep == LogTypeOK /\ LsnOrder /\ [LogNext]_logVars => LogTypeOK'
<1> SUFFICES ASSUME LogTypeOK, LsnOrder, [LogNext]_logVars PROVE LogTypeOK'
  OBVIOUS
<1> USE DEF LogTypeOK, walVars, memVars, recVars, ckptVars, budgets
<1>1. ASSUME NEW g \in Gxid, SetDelayChkpt(g) PROVE LogTypeOK'
  BY <1>1 DEF SetDelayChkpt
<1>2. ASSUME NEW g \in Gxid, insertingDistributedCommitted(g) PROVE LogTypeOK'
  <2>1. XLogInsert("commit", g)
    BY <1>2 DEF insertingDistributedCommitted
  <2> QED BY <1>2, <2>1, InsertFacts DEF insertingDistributedCommitted
<1>3. ASSUME NEW g \in Gxid, insertedDistributedCommitted(g) PROVE LogTypeOK'
  BY <1>3 DEF insertedDistributedCommitted
<1>4. ASSUME NEW g \in Gxid, FlushCommitRecord(g) PROVE LogTypeOK'
  BY <1>4 DEF FlushCommitRecord, Record
<1>5. ASSUME NEW g \in Gxid, RecordDistributedForgetCommitted(g) PROVE LogTypeOK'
  <2>1. XLogInsert("forget", g)
    BY <1>5 DEF RecordDistributedForgetCommitted
  <2> QED BY <1>5, <2>1, InsertFacts DEF RecordDistributedForgetCommitted
<1>6. ASSUME NEW g \in Gxid, ClearIncludeInCkpt(g) PROVE LogTypeOK'
  BY <1>6 DEF ClearIncludeInCkpt
<1>7. ASSUME NEW g \in Gxid, RecoveryForget(g) PROVE LogTypeOK'
  <2>1. XLogInsert("forget", g)
    BY <1>7 DEF RecoveryForget
  <2> QED BY <1>7, <2>1, InsertFacts DEF RecoveryForget
<1>8. CASE XLogBackgroundFlush
  BY <1>8 DEF XLogBackgroundFlush
<1>9. CASE CkptSetRedo
  BY <1>9 DEF CkptSetRedo
<1>10. CASE CkptGetDelaying
  BY <1>10 DEF CkptGetDelaying
<1>11. CASE CkptWaited
  BY <1>11 DEF CkptWaited
<1>12. CASE getDtxCheckPointInfo
  BY <1>12 DEF getDtxCheckPointInfo
<1>13. CASE CkptWrite
  BY <1>13 DEF CkptWrite
<1>14. CASE Crash
  <2>1. PICK cut \in flushLsn .. insertLsn :
             wal' = {r \in wal : r.lsn <= cut} /\ insertLsn' = cut /\ flushLsn' = cut
    BY <1>14 DEF Crash
  <2>2. wal' \subseteq Record /\ insertLsn' \in Nat /\ flushLsn' \in Nat
    BY <2>1
  <2>3. /\ delayChkpt' = {} /\ includeInCkpt' = {} /\ shmCommitted' = {} /\ recDone' = {}
        /\ ckptPc' = "idle" /\ ckptRedo' = 0 /\ ckptWait' = {} /\ ckptList' = {}
        /\ ckpt' = ckpt /\ ckpts' = ckpts /\ recRestarts' = recRestarts /\ up' = FALSE
        /\ crashes < MaxCrash /\ crashes' = crashes + 1
    BY <1>14 DEF Crash
  <2>4. crashes' \in 0 .. MaxCrash
    BY <2>3
  <2>5. ckptRedo' \in Nat /\ ckptPc' \in {"idle", "redo", "wait", "info", "write"}
    BY <2>3
  <2>6. up' \in BOOLEAN
    BY <2>3
  <2> QED BY <2>2, <2>3, <2>4, <2>5, <2>6
<1>15. CASE StartupXLOG
  BY <1>15 DEF StartupXLOG, Replay
<1>16. CASE RecoveryClear
  BY <1>16 DEF RecoveryClear
<1>17. CASE RecoveryRestart
  BY <1>17 DEF RecoveryRestart
<1>18. CASE UNCHANGED logVars
  BY <1>18 DEF logVars
<1> QED
  BY <1>1, <1>2, <1>3, <1>4, <1>5, <1>6, <1>7, <1>8, <1>9, <1>10, <1>11, <1>12, <1>13, <1>14,
     <1>15, <1>16, <1>17, <1>18 DEF LogNext

(* A log that only grows keeps what it says. *)
LEMMA LogGrows ==
    ASSUME LogTypeOK, LogTypeOK', wal \subseteq wal', flushLsn <= flushLsn'
    PROVE  \A g \in Gxid : /\ HasCommit(g) => HasCommit(g)'
                           /\ HasForget(g) => HasForget(g)'
                           /\ Durable(g) => Durable(g)'
                           /\ Logged("forget", g, 0, flushLsn) => Logged("forget", g, 0, flushLsn)'
BY DEF LogTypeOK, HasCommit, HasForget, Durable, Logged, Record

(* The same of each operation on the log: an insertion adds one record, a   *)
(* flush none, a crash takes away what is not durable.                      *)
LEMMA LogAfterInsert ==
    ASSUME NEW kind \in {"commit", "forget"}, NEW g \in Gxid, LogTypeOK, LogTypeOK', LsnOrder,
           XLogInsert(kind, g), flushLsn' = flushLsn, NEW h \in Gxid
    PROVE  /\ HasCommit(h)' <=> HasCommit(h) \/ (kind = "commit" /\ h = g)
           /\ HasForget(h)' <=> HasForget(h) \/ (kind = "forget" /\ h = g)
           /\ Durable(h) => Durable(h)'
<1>1. flushLsn <= flushLsn'
  BY DEF LogTypeOK
<1>2. Durable(h) => Durable(h)'
  BY <1>1, InsertFacts, LogGrows
<1> QED BY <1>2, InsertFacts DEF HasCommit, HasForget

\* XLogFlush() moves the flushed prefix only, so records keep their positions.
LEMMA LogAfterFlush ==
    ASSUME LogTypeOK, LogTypeOK', wal' = wal, flushLsn <= flushLsn', NEW h \in Gxid
    PROVE  /\ HasCommit(h)' <=> HasCommit(h)
           /\ HasForget(h)' <=> HasForget(h)
           /\ Durable(h) => Durable(h)'
BY LogGrows DEF HasCommit, HasForget

\* A crash keeps a prefix of the log that holds at least what was flushed.
LEMMA LogAfterCrash ==
    ASSUME LogTypeOK, LsnOrder, Crash, NEW h \in Gxid
    PROVE  /\ HasCommit(h)' => HasCommit(h)
           /\ HasForget(h)' => HasForget(h)
           /\ Durable(h) => Durable(h)'
<1>1. PICK cut \in flushLsn .. insertLsn :
           wal' = {r \in wal : r.lsn <= cut} /\ flushLsn' = cut
  BY DEF Crash
<1>2. Durable(h) => Durable(h)'
  BY <1>1 DEF Durable, LogTypeOK, Record
<1> QED BY <1>1, <1>2 DEF HasCommit, HasForget

(* After a crash the replay finds exactly the transactions whose commit is  *)
(* durable and not durably forgotten, or listed by the checkpoint.          *)
LEMMA ReplayDurable ==
    ASSUME LogInv
    PROVE  /\ \A end \in flushLsn .. insertLsn : \A g \in Gxid :
                 Logged("commit", g, 0, end) /\ ~ Logged("forget", g, 0, end) => g \in Replay(end)
           /\ \A end \in flushLsn .. insertLsn : \A g \in Replay(end) : Logged("commit", g, 0, end)
<1>0. LogTypeOK /\ LsnOrder /\ CkptComplete
  BY DEF LogInv
<1>1. ASSUME NEW end \in flushLsn .. insertLsn, NEW g \in Gxid,
             Logged("commit", g, 0, end), ~ Logged("forget", g, 0, end)
      PROVE  g \in Replay(end)
  <2>1. PICK r \in wal : r.kind = "commit" /\ r.gxid = g /\ 0 < r.lsn /\ r.lsn <= end
    BY <1>1 DEF Logged
  <2>2. ~ Logged("forget", g, ckpt.redo, end)
    BY <1>0, <1>1 DEF Logged, LogTypeOK, LsnOrder, Record
  <2>3. ~ Logged("forget", g, 0, flushLsn)
    BY <1>0, <1>1 DEF Logged, LogTypeOK, LsnOrder, Record
  <2>4. g \in ckpt.committed \/ Logged("commit", g, ckpt.redo, end)
    BY <1>0, <2>1, <2>3 DEF Logged, LogTypeOK, CkptComplete, Record
  <2> QED BY <2>2, <2>4 DEF Replay
<1>2. ASSUME NEW end \in flushLsn .. insertLsn, NEW g \in Replay(end)
      PROVE  Logged("commit", g, 0, end)
  <2>1. CASE Logged("commit", g, ckpt.redo, end)
    BY <1>0, <2>1 DEF Logged, LogTypeOK, Record
  <2>2. CASE g \in ckpt.committed
    BY <1>0, <2>2 DEF Logged, LogTypeOK, CkptComplete, Durable, LsnOrder, Record
  <2> QED BY <1>2, <2>1, <2>2 DEF Replay
<1> QED BY <1>1, <1>2

(* An insertion keeps the LSNs in order. *)
LEMMA InsertLsnOrder ==
    ASSUME NEW kind \in {"commit", "forget"}, NEW g \in Gxid, LogTypeOK, LsnOrder,
           XLogInsert(kind, g), up', flushLsn' = flushLsn, ckpt' = ckpt, ckptRedo' = ckptRedo
    PROVE  LsnOrder'
<1>1. \A r \in wal' : 0 < r.lsn /\ r.lsn <= insertLsn'
  BY InsertFacts DEF LogTypeOK, LsnOrder, Record
<1>2. flushLsn' <= insertLsn' /\ ckpt'.redo <= flushLsn' /\ ckptRedo' <= insertLsn'
  BY InsertFacts DEF LogTypeOK, LsnOrder
<1> QED BY <1>1, <1>2 DEF LsnOrder

(* LSNs stay in order, and a crash leaves no shared memory behind. *)
LEMMA LsnOrderStep == LogInv /\ [LogNext]_logVars => LsnOrder'
<1> SUFFICES ASSUME LogInv, [LogNext]_logVars PROVE LsnOrder'
  OBVIOUS
<1>0. LogTypeOK /\ LsnOrder /\ LogTypeOK'
  BY LogTypeStep DEF LogInv
<1> USE DEF LsnOrder, walVars, memVars, recVars, ckptVars, budgets
<1>1. ASSUME NEW g \in Gxid, SetDelayChkpt(g) PROVE LsnOrder'
  BY <1>0, <1>1 DEF SetDelayChkpt
<1>2. ASSUME NEW g \in Gxid, insertingDistributedCommitted(g) PROVE LsnOrder'
  <2>1. XLogInsert("commit", g)
    BY <1>2 DEF insertingDistributedCommitted
  <2> QED BY <1>0, <1>2, <2>1, InsertLsnOrder DEF insertingDistributedCommitted
<1>3. ASSUME NEW g \in Gxid, insertedDistributedCommitted(g) PROVE LsnOrder'
  BY <1>0, <1>3 DEF insertedDistributedCommitted
<1>4. ASSUME NEW g \in Gxid, FlushCommitRecord(g) PROVE LsnOrder'
  BY <1>0, <1>4 DEF FlushCommitRecord, Record, LogTypeOK
<1>5. ASSUME NEW g \in Gxid, RecordDistributedForgetCommitted(g) PROVE LsnOrder'
  <2>1. XLogInsert("forget", g)
    BY <1>5 DEF RecordDistributedForgetCommitted
  <2> QED BY <1>0, <1>5, <2>1, InsertLsnOrder DEF RecordDistributedForgetCommitted
<1>6. ASSUME NEW g \in Gxid, ClearIncludeInCkpt(g) PROVE LsnOrder'
  BY <1>0, <1>6 DEF ClearIncludeInCkpt
<1>7. ASSUME NEW g \in Gxid, RecoveryForget(g) PROVE LsnOrder'
  <2>1. XLogInsert("forget", g)
    BY <1>7 DEF RecoveryForget
  <2> QED BY <1>0, <1>7, <2>1, InsertLsnOrder DEF RecoveryForget
<1>8. CASE XLogBackgroundFlush
  BY <1>0, <1>8 DEF XLogBackgroundFlush, LogTypeOK
<1>9. CASE CkptSetRedo
  BY <1>0, <1>9 DEF CkptSetRedo, LogTypeOK
<1>10. CASE CkptGetDelaying \/ CkptWaited \/ getDtxCheckPointInfo
  BY <1>0, <1>10 DEF CkptGetDelaying, CkptWaited, getDtxCheckPointInfo
<1>11. CASE CkptWrite
  BY <1>0, <1>11 DEF CkptWrite, LogTypeOK, Record
<1>12. CASE Crash
  BY <1>0, <1>12 DEF Crash, LogTypeOK, Record
<1>13. CASE StartupXLOG
  BY <1>0, <1>13 DEF StartupXLOG, LogTypeOK, Record
<1>14. CASE RecoveryClear \/ RecoveryRestart
  BY <1>0, <1>14 DEF RecoveryClear, RecoveryRestart
<1>15. CASE UNCHANGED logVars
  BY <1>0, <1>15 DEF logVars
<1> QED
  BY <1>1, <1>2, <1>3, <1>4, <1>5, <1>6, <1>7, <1>8, <1>9, <1>10, <1>11, <1>12, <1>13, <1>14,
     <1>15 DEF LogNext

(* What backends, the recovery process and the start-up put into shared    *)
(* memory is backed by the log: includeInCkpt is set after the insertion,   *)
(* shmCommittedGxidArray is filled from what has survived.                  *)
LEMMA MemoryLoggedStep == LogInv /\ [LogNext]_logVars => MemoryLogged'
<1> SUFFICES ASSUME LogInv, [LogNext]_logVars PROVE MemoryLogged'
  OBVIOUS
<1>0. LogTypeOK /\ LsnOrder /\ MemoryLogged /\ LogTypeOK' /\ LsnOrder'
  BY LogTypeStep, LsnOrderStep DEF LogInv
<1> USE DEF MemoryLogged, walVars, memVars, recVars, ckptVars, budgets
<1>1. ASSUME NEW g \in Gxid, SetDelayChkpt(g) PROVE MemoryLogged'
  BY <1>0, <1>1 DEF SetDelayChkpt, HasCommit, HasForget, Durable
<1>2. ASSUME NEW g \in Gxid, insertingDistributedCommitted(g) PROVE MemoryLogged'
  <2>1. XLogInsert("commit", g)
    BY <1>2 DEF insertingDistributedCommitted
  <2> QED BY <1>0, <1>2, <2>1, InsertFacts, LogGrows DEF insertingDistributedCommitted, LogTypeOK
<1>3. ASSUME NEW g \in Gxid, insertedDistributedCommitted(g) PROVE MemoryLogged'
  BY <1>0, <1>3 DEF insertedDistributedCommitted, HasCommit, HasForget, Durable
<1>4. ASSUME NEW g \in Gxid, FlushCommitRecord(g) PROVE MemoryLogged'
  <2>1. flushLsn <= flushLsn'
    BY <1>0, <1>4 DEF FlushCommitRecord, LogTypeOK, Record
  <2> QED BY <1>0, <1>4, <2>1, LogGrows DEF FlushCommitRecord, LogTypeOK
<1>5. ASSUME NEW g \in Gxid, RecordDistributedForgetCommitted(g) PROVE MemoryLogged'
  <2>1. XLogInsert("forget", g)
    BY <1>5 DEF RecordDistributedForgetCommitted
  <2> QED BY <1>0, <1>5, <2>1, InsertFacts, LogGrows
          DEF RecordDistributedForgetCommitted, LogTypeOK
<1>6. ASSUME NEW g \in Gxid, ClearIncludeInCkpt(g) PROVE MemoryLogged'
  BY <1>0, <1>6 DEF ClearIncludeInCkpt, HasCommit, HasForget, Durable
<1>7. ASSUME NEW g \in Gxid, RecoveryForget(g) PROVE MemoryLogged'
  <2>1. XLogInsert("forget", g)
    BY <1>7 DEF RecoveryForget
  <2>2. wal \subseteq wal' /\ flushLsn <= flushLsn' /\ HasForget(g)'
    BY <1>0, <1>7, <2>1, InsertFacts DEF RecoveryForget, LogTypeOK, HasForget
  <2> QED BY <1>0, <1>7, <2>2, LogGrows DEF RecoveryForget, LogTypeOK
<1>8. CASE XLogBackgroundFlush
  BY <1>0, <1>8, LogGrows DEF XLogBackgroundFlush, LogTypeOK
<1>9. CASE CkptSetRedo \/ CkptGetDelaying \/ CkptWaited \/ getDtxCheckPointInfo
  BY <1>0, <1>9 DEF CkptSetRedo, CkptGetDelaying, CkptWaited, getDtxCheckPointInfo,
                    HasCommit, HasForget, Durable
<1>11. CASE CkptWrite
  <2>1. flushLsn <= flushLsn'
    BY <1>0, <1>11 DEF CkptWrite, LogTypeOK, LsnOrder
  <2> QED BY <1>0, <1>11, <2>1, LogGrows DEF CkptWrite, LogTypeOK
<1>12. CASE Crash
  BY <1>12 DEF Crash
<1>13. CASE StartupXLOG
  <2>1. \A g \in Replay(insertLsn) : g \in Gxid /\ Logged("commit", g, 0, insertLsn)
    BY <1>0, ReplayDurable DEF LogTypeOK, LsnOrder, Replay
  <2>2. wal' = wal /\ insertLsn <= flushLsn'
    BY <1>0, <1>13 DEF StartupXLOG, LogTypeOK
  <2>3. \A g \in Replay(insertLsn) : Durable(g)'
    BY <1>0, <2>1, <2>2 DEF Logged, Durable, LogTypeOK, Record
  <2>4. shmCommitted' = Replay(insertLsn) /\ includeInCkpt' = {} /\ recDone' = {}
    BY <1>0, <1>13 DEF StartupXLOG, LsnOrder
  <2> QED BY <2>3, <2>4
<1>14. CASE RecoveryClear \/ RecoveryRestart
  BY <1>0, <1>14 DEF RecoveryClear, RecoveryRestart, HasCommit, HasForget, Durable
<1>15. CASE UNCHANGED logVars
  BY <1>0, <1>15 DEF logVars, HasCommit, HasForget, Durable
<1> QED
  BY <1>1, <1>2, <1>3, <1>4, <1>5, <1>6, <1>7, <1>8, <1>9, <1>11, <1>12, <1>13, <1>14,
     <1>15 DEF LogNext

(* A commit without forget record is owned by a backend or listed in        *)
(* shmCommittedGxidArray: it changes owner, it is never without one.        *)
LEMMA PendingCommitStep == LogInv /\ [LogNext]_logVars => PendingCommitKept'
<1> SUFFICES ASSUME LogInv, [LogNext]_logVars PROVE PendingCommitKept'
  OBVIOUS
<1>0. LogTypeOK /\ LsnOrder /\ MemoryLogged /\ PendingCommitKept /\ LogTypeOK' /\ LsnOrder'
  BY LogTypeStep, LsnOrderStep DEF LogInv
<1> USE DEF PendingCommitKept, walVars, memVars, recVars, ckptVars, budgets
<1>1. ASSUME NEW g \in Gxid, SetDelayChkpt(g) PROVE PendingCommitKept'
  BY <1>0, <1>1 DEF SetDelayChkpt, HasCommit, HasForget
<1>2. ASSUME NEW g \in Gxid, insertingDistributedCommitted(g) PROVE PendingCommitKept'
  <2>1. XLogInsert("commit", g)
    BY <1>2 DEF insertingDistributedCommitted
  <2>2. \A h \in Gxid : /\ HasCommit(h)' => HasCommit(h) \/ h = g
                        /\ HasForget(h) => HasForget(h)'
    BY <1>0, <2>1, InsertFacts DEF HasCommit, HasForget
  <2> QED BY <1>0, <1>2, <2>2 DEF insertingDistributedCommitted
<1>3. ASSUME NEW g \in Gxid, insertedDistributedCommitted(g) PROVE PendingCommitKept'
  BY <1>0, <1>3 DEF insertedDistributedCommitted, HasCommit, HasForget
<1>4. ASSUME NEW g \in Gxid, FlushCommitRecord(g) PROVE PendingCommitKept'
  BY <1>0, <1>4 DEF FlushCommitRecord, HasCommit, HasForget
<1>5. ASSUME NEW g \in Gxid, RecordDistributedForgetCommitted(g) \/ RecoveryForget(g)
      PROVE  PendingCommitKept'
  <2>1. XLogInsert("forget", g)
    BY <1>5 DEF RecordDistributedForgetCommitted, RecoveryForget
  <2>2. \A h \in Gxid : /\ HasCommit(h)' => HasCommit(h)
                        /\ HasForget(h) => HasForget(h)'
    BY <1>0, <2>1, InsertFacts DEF HasCommit, HasForget
  <2> QED BY <1>0, <1>5, <2>2 DEF RecordDistributedForgetCommitted, RecoveryForget
<1>6. ASSUME NEW g \in Gxid, ClearIncludeInCkpt(g) PROVE PendingCommitKept'
  BY <1>0, <1>6 DEF ClearIncludeInCkpt, HasCommit, HasForget
<1>8. CASE XLogBackgroundFlush \/ CkptWrite
  BY <1>0, <1>8 DEF XLogBackgroundFlush, CkptWrite, HasCommit, HasForget
<1>9. CASE CkptSetRedo \/ CkptGetDelaying \/ CkptWaited \/ getDtxCheckPointInfo
  BY <1>0, <1>9 DEF CkptSetRedo, CkptGetDelaying, CkptWaited, getDtxCheckPointInfo,
                    HasCommit, HasForget
<1>12. CASE Crash
  BY <1>12 DEF Crash
<1>13. CASE StartupXLOG
  <2>1. \A g \in Gxid : HasCommit(g) /\ ~ HasForget(g) => g \in Replay(insertLsn)
    <3>1. insertLsn \in flushLsn .. insertLsn
      BY <1>0 DEF LogTypeOK, LsnOrder
    <3>2. \A g \in Gxid : HasCommit(g) => Logged("commit", g, 0, insertLsn)
      BY <1>0 DEF LogTypeOK, LsnOrder, HasCommit, Logged
    <3>3. \A g \in Gxid : Logged("forget", g, 0, insertLsn) => HasForget(g)
      BY DEF HasForget, Logged
    <3> QED BY <3>1, <3>2, <3>3, ReplayDurable
  <2> QED BY <1>13, <2>1 DEF StartupXLOG, HasCommit, HasForget
<1>14. CASE RecoveryClear
  BY <1>0, <1>14 DEF RecoveryClear, MemoryLogged, HasCommit, HasForget
<1>15. CASE RecoveryRestart
  BY <1>0, <1>15 DEF RecoveryRestart, HasCommit, HasForget
<1>16. CASE UNCHANGED logVars
  BY <1>0, <1>16 DEF logVars, HasCommit, HasForget
<1> QED
  BY <1>1, <1>2, <1>3, <1>4, <1>5, <1>6, <1>8, <1>9, <1>12, <1>13, <1>14, <1>15, <1>16
     DEF LogNext

(* The checkpoint in force stays complete: a new one takes over what         *)
(* RunningCkptComplete says of it, a crash keeps what was flushed.          *)
LEMMA CkptCompleteStep == LogInv /\ [LogNext]_logVars => CkptComplete'
<1> SUFFICES ASSUME LogInv, [LogNext]_logVars PROVE CkptComplete'
  OBVIOUS
<1>0. /\ LogTypeOK /\ LsnOrder /\ CkptComplete /\ RunningCkptComplete
      /\ LogTypeOK' /\ LsnOrder'
  BY LogTypeStep, LsnOrderStep DEF LogInv
<1> USE DEF walVars, memVars, recVars, ckptVars, budgets
<1>1. ASSUME wal' = wal, ckpt' = ckpt, flushLsn <= flushLsn' PROVE CkptComplete'
  BY <1>0, <1>1, LogGrows DEF CkptComplete, LogTypeOK, Record
<1>2. ASSUME NEW kind \in {"commit", "forget"}, NEW g \in Gxid, XLogInsert(kind, g),
             ckpt' = ckpt, flushLsn' = flushLsn
      PROVE  CkptComplete'
  <2>1. wal \subseteq wal' /\ \A r \in wal' : r \in wal \/ r.lsn = insertLsn + 1
    BY <1>0, <1>2, InsertFacts
  <2>2. flushLsn <= flushLsn' /\ \A r \in wal' : r.lsn <= ckpt.redo => r \in wal
    BY <1>0, <1>2, <2>1 DEF LogTypeOK, LsnOrder
  <2> QED BY <1>0, <1>2, <2>1, <2>2, LogGrows DEF CkptComplete, LogTypeOK, Record
<1>3. ASSUME NEW g \in Gxid,
             \/ SetDelayChkpt(g) \/ insertedDistributedCommitted(g) \/ ClearIncludeInCkpt(g)
             \/ FlushCommitRecord(g)
      PROVE  CkptComplete'
  <2>1. wal' = wal /\ ckpt' = ckpt
    BY <1>3 DEF SetDelayChkpt, insertedDistributedCommitted, ClearIncludeInCkpt, FlushCommitRecord
  <2>2. flushLsn <= flushLsn'
    BY <1>0, <1>3 DEF SetDelayChkpt, insertedDistributedCommitted, ClearIncludeInCkpt,
                      FlushCommitRecord, LogTypeOK, Record
  <2> QED BY <1>1, <2>1, <2>2
<1>4. ASSUME NEW g \in Gxid, insertingDistributedCommitted(g) PROVE CkptComplete'
  BY <1>2, <1>4 DEF insertingDistributedCommitted
<1>5. ASSUME NEW g \in Gxid, RecordDistributedForgetCommitted(g) PROVE CkptComplete'
  BY <1>2, <1>5 DEF RecordDistributedForgetCommitted
<1>6. ASSUME NEW g \in Gxid, RecoveryForget(g) PROVE CkptComplete'
  BY <1>2, <1>6 DEF RecoveryForget
<1>7. CASE XLogBackgroundFlush
  BY <1>0, <1>1, <1>7 DEF XLogBackgroundFlush, LogTypeOK, LsnOrder
<1>8. CASE CkptSetRedo \/ CkptGetDelaying \/ CkptWaited \/ getDtxCheckPointInfo
  BY <1>0, <1>1, <1>8 DEF CkptSetRedo, CkptGetDelaying, CkptWaited, getDtxCheckPointInfo, LogTypeOK
<1>9. CASE CkptWrite
  <2>1. /\ wal' = wal /\ ckpt' = [redo |-> ckptRedo, committed |-> ckptList]
        /\ flushLsn' = insertLsn + 1 /\ RunningCkptSources = ckptList
    BY <1>9 DEF CkptWrite, RunningCkptSources
  <2>2. ckpt'.redo = ckptRedo /\ ckpt'.committed = ckptList
    BY <2>1
  <2>3. \A g \in Gxid : HasForget(g) => Logged("forget", g, 0, flushLsn)'
    BY <1>0, <2>1 DEF HasForget, Logged, LogTypeOK, LsnOrder, Record
  <2>4. \A g \in Gxid : HasCommit(g) => Durable(g)'
    BY <1>0, <2>1 DEF HasCommit, Durable, LogTypeOK, LsnOrder, Record
  <2>5. \A r \in wal : r.kind = "commit" /\ r.lsn <= ckptRedo =>
                          HasForget(r.gxid) \/ r.gxid \in ckptList
    BY <1>0, <2>1 DEF RunningCkptComplete
  <2>6. ckptList \subseteq Gxid /\ \A r \in wal : r.gxid \in Gxid
    BY <1>0 DEF LogTypeOK, Record
  <2> QED BY <1>0, <2>1, <2>2, <2>3, <2>4, <2>5, <2>6 DEF CkptComplete, RunningCkptComplete
<1>10. CASE Crash
  <2>1. PICK cut \in flushLsn .. insertLsn :
             wal' = {r \in wal : r.lsn <= cut} /\ flushLsn' = cut
    BY <1>10 DEF Crash
  <2>2. ckpt' = ckpt
    BY <1>10 DEF Crash
  <2>3. \A g \in Gxid : Durable(g) => Durable(g)'
    BY <1>0, <2>1 DEF Durable, LogTypeOK, Record
  <2>4. \A g \in Gxid : Logged("forget", g, 0, flushLsn) => Logged("forget", g, 0, flushLsn)'
    BY <1>0, <2>1 DEF Logged, LogTypeOK, Record
  <2>5. wal' \subseteq wal /\ ckpt.committed \subseteq Gxid /\ \A r \in wal : r.gxid \in Gxid
    BY <1>0, <2>1 DEF LogTypeOK, Record
  <2> QED BY <1>0, <2>2, <2>3, <2>4, <2>5 DEF CkptComplete
<1>11. CASE StartupXLOG
  <2> DEFINE list == Replay(insertLsn)
  <2>1. /\ wal' = wal /\ ckpt' = [redo |-> insertLsn, committed |-> list]
        /\ flushLsn' = insertLsn + 1 /\ flushLsn = insertLsn
    BY <1>0, <1>11 DEF StartupXLOG, LsnOrder
  <2>2. insertLsn \in flushLsn .. insertLsn
    BY <1>0, <2>1 DEF LogTypeOK
  <2>3. list \subseteq Gxid
    BY DEF Replay
  <2>4. \A g \in Gxid : Logged("commit", g, 0, insertLsn) /\ ~ Logged("forget", g, 0, insertLsn)
                           => g \in list
    BY <2>2, ReplayDurable
  <2>5. \A g \in list : Logged("commit", g, 0, insertLsn)
    BY <2>2, ReplayDurable
  <2> HIDE DEF list
  <2>6. \A g \in list : Durable(g)'
    BY <1>0, <2>1, <2>5 DEF Logged, Durable, LogTypeOK, Record
  <2>7. \A r \in wal : r.kind = "commit" => Logged("commit", r.gxid, 0, insertLsn)
    BY <1>0 DEF Logged, LogTypeOK, LsnOrder, Record
  <2>8. \A g \in Gxid : Logged("forget", g, 0, insertLsn) => Logged("forget", g, 0, flushLsn)'
    BY <1>0, <2>1 DEF Logged, LogTypeOK, Record
  <2>9. \A r \in wal : r.gxid \in Gxid
    BY <1>0 DEF LogTypeOK, Record
  <2>10. ckpt'.redo = insertLsn /\ ckpt'.committed = list
    BY <2>1
  <2> QED BY <2>1, <2>4, <2>6, <2>7, <2>8, <2>9, <2>10 DEF CkptComplete
<1>12. CASE RecoveryClear \/ RecoveryRestart
  BY <1>0, <1>1, <1>12 DEF RecoveryClear, RecoveryRestart, LogTypeOK
<1>13. CASE UNCHANGED logVars
  BY <1>0, <1>1, <1>13 DEF logVars, LogTypeOK
<1> QED
  BY <1>3, <1>4, <1>5, <1>6, <1>7, <1>8, <1>9, <1>10, <1>11, <1>12, <1>13 DEF LogNext

(* CreateCheckPoint() against backends that commit: from GetVirtualXIDs-     *)
(* DelayingChkpt() on, every commit before the REDO pointer is on its way    *)
(* into the list, because its backend is waited for until includeInCkpt.     *)
LEMMA RunningCkptStep == LogInv /\ [LogNext]_logVars => RunningCkptComplete'
<1> SUFFICES ASSUME LogInv, [LogNext]_logVars PROVE RunningCkptComplete'
  OBVIOUS
<1>0. /\ LogTypeOK /\ LsnOrder /\ MemoryLogged /\ RunningCkptComplete /\ PendingCommitKept
      /\ LogTypeOK' /\ LsnOrder' /\ MemoryLogged'
  BY LogTypeStep, LsnOrderStep, MemoryLoggedStep DEF LogInv
<1>g. \A r \in wal : r.gxid \in Gxid
  BY <1>0 DEF LogTypeOK, Record
<1>g2. \A r \in wal' : r.gxid \in Gxid
  BY <1>0 DEF LogTypeOK, Record
<1> USE DEF walVars, memVars, recVars, ckptVars, budgets
(* Steps that leave the log and the running checkpoint alone may move a
   transaction from one source of the checkpoint to another. *)
<1>1. ASSUME wal' = wal, ckptRedo' = ckptRedo, ckptList' = ckptList,
             \A g \in RunningCkptSources : HasCommit(g) => HasForget(g) \/ g \in RunningCkptSources'
      PROVE  RunningCkptComplete'
  <2>1. \A g \in Gxid : (HasCommit(g)' <=> HasCommit(g)) /\ (HasForget(g)' <=> HasForget(g))
    BY <1>1 DEF HasCommit, HasForget
  <2>2. ckptList \subseteq Gxid
    BY <1>0 DEF LogTypeOK
  <2>3. \A r \in wal : r.kind = "commit" => HasCommit(r.gxid)
    BY DEF HasCommit
  <2> QED BY <1>0, <1>g, <1>1, <2>1, <2>2, <2>3 DEF RunningCkptComplete
(* A new record has an LSN after the REDO pointer. *)
<1>2. ASSUME NEW kind \in {"commit", "forget"}, NEW g \in Gxid, XLogInsert(kind, g),
             ckptRedo' = ckptRedo, ckptList' = ckptList, flushLsn' = flushLsn,
             RunningCkptSources' = RunningCkptSources
      PROVE  RunningCkptComplete'
  <2>1. wal \subseteq wal' /\ \A r \in wal' : r \in wal \/ r.lsn = insertLsn + 1
    BY <1>0, <1>2, InsertFacts
  <2>2. \A r \in wal' : r.lsn <= ckptRedo => r \in wal
    BY <1>0, <2>1 DEF LogTypeOK, LsnOrder
  <2>3. \A h \in Gxid : (HasCommit(h) => HasCommit(h)') /\ (HasForget(h) => HasForget(h)')
    BY <2>1 DEF HasCommit, HasForget
  <2>4. ckptList \subseteq Gxid
    BY <1>0 DEF LogTypeOK
  <2> QED BY <1>0, <1>g, <1>2, <2>2, <2>3, <2>4 DEF RunningCkptComplete
<1>3. ASSUME NEW g \in Gxid, SetDelayChkpt(g) PROVE RunningCkptComplete'
  BY <1>1, <1>3 DEF SetDelayChkpt, RunningCkptSources
<1>4. ASSUME NEW g \in Gxid, insertingDistributedCommitted(g) PROVE RunningCkptComplete'
  BY <1>2, <1>4 DEF insertingDistributedCommitted, RunningCkptSources
<1>5. ASSUME NEW g \in Gxid, insertedDistributedCommitted(g) PROVE RunningCkptComplete'
  BY <1>1, <1>5 DEF insertedDistributedCommitted, RunningCkptSources
<1>6. ASSUME NEW g \in Gxid, FlushCommitRecord(g) PROVE RunningCkptComplete'
  BY <1>1, <1>6 DEF FlushCommitRecord, RunningCkptSources
<1>7. ASSUME NEW g \in Gxid, RecordDistributedForgetCommitted(g) PROVE RunningCkptComplete'
  BY <1>2, <1>7 DEF RecordDistributedForgetCommitted, RunningCkptSources
<1>8. ASSUME NEW g \in Gxid, ClearIncludeInCkpt(g) PROVE RunningCkptComplete'
  BY <1>1, <1>8 DEF ClearIncludeInCkpt, RunningCkptSources
<1>9. ASSUME NEW g \in Gxid, RecoveryForget(g) PROVE RunningCkptComplete'
  BY <1>2, <1>9 DEF RecoveryForget, RunningCkptSources
<1>10. CASE XLogBackgroundFlush
  BY <1>1, <1>10 DEF XLogBackgroundFlush, RunningCkptSources
<1>11. CASE CkptSetRedo
  <2>1. RunningCkptSources' = Gxid /\ wal' = wal /\ ckptList' = ckptList
    BY <1>11 DEF CkptSetRedo, RunningCkptSources
  <2>2. \A g \in Gxid : HasCommit(g)' <=> HasCommit(g)
    BY <2>1 DEF HasCommit
  <2> QED BY <1>0, <1>g, <2>1, <2>2 DEF RunningCkptComplete, LogTypeOK
<1>12. CASE CkptGetDelaying
  <2>1. /\ wal' = wal /\ ckptRedo' = ckptRedo /\ ckptList' = ckptList
        /\ RunningCkptSources' = shmCommitted \cup includeInCkpt \cup delayChkpt
        /\ RunningCkptSources = Gxid
    BY <1>12 DEF CkptGetDelaying, RunningCkptSources
  <2>2. \A g \in Gxid : HasCommit(g) => HasForget(g) \/ g \in RunningCkptSources'
    BY <1>0, <1>12, <2>1 DEF PendingCommitKept, CkptGetDelaying
  <2> QED BY <1>1, <2>1, <2>2
<1>13. CASE CkptWaited
  BY <1>1, <1>13 DEF CkptWaited, RunningCkptSources
<1>14. CASE getDtxCheckPointInfo
  <2>1. /\ wal' = wal /\ ckptRedo' = ckptRedo /\ RunningCkptSources' = RunningCkptSources
        /\ ckptList' = shmCommitted \cup includeInCkpt
    BY <1>14 DEF getDtxCheckPointInfo, RunningCkptSources
  <2>2. \A g \in Gxid : (HasCommit(g)' <=> HasCommit(g)) /\ (HasForget(g)' <=> HasForget(g))
    BY <2>1 DEF HasCommit, HasForget
  <2>3. \A g \in shmCommitted \cup includeInCkpt : g \in Gxid /\ HasCommit(g)
    BY <1>0 DEF MemoryLogged, HasCommit, Durable, LogTypeOK
  <2> QED BY <1>0, <1>g, <2>1, <2>2, <2>3 DEF RunningCkptComplete
<1>15. CASE CkptWrite \/ Crash
  <2>1. ckptList' = {} /\ RunningCkptSources' = Gxid
    BY <1>15 DEF CkptWrite, Crash, RunningCkptSources
  <2> QED BY <1>g2, <2>1 DEF RunningCkptComplete
<1>16. CASE StartupXLOG
  <2>1. RunningCkptSources' = Gxid /\ RunningCkptSources = Gxid
    BY <1>0, <1>16 DEF StartupXLOG, RunningCkptSources, LsnOrder
  <2> QED BY <1>1, <1>16, <2>1 DEF StartupXLOG
<1>17. CASE RecoveryClear
  BY <1>0, <1>1, <1>17 DEF RecoveryClear, RunningCkptSources, MemoryLogged
<1>18. CASE RecoveryRestart
  BY <1>1, <1>18 DEF RecoveryRestart, RunningCkptSources
<1>19. CASE UNCHANGED logVars
  BY <1>1, <1>19 DEF logVars, RunningCkptSources
<1> QED
  BY <1>3, <1>4, <1>5, <1>6, <1>7, <1>8, <1>9, <1>10, <1>11, <1>12, <1>13, <1>14, <1>15, <1>16,
     <1>17, <1>18, <1>19 DEF LogNext

(* The parts together are inductive. *)
LEMMA LogInvStep == LogInv /\ [LogNext]_logVars => LogInv'
BY LogTypeStep, LsnOrderStep, MemoryLoggedStep, CkptCompleteStep, RunningCkptStep,
   PendingCommitStep DEF LogInv

-----------------------------------------------------------------------------
(***************************************************************************)
(* The invariant of the log: every reachable state of LogSpec satisfies    *)
(* all its parts, for any number of transactions, crashes, checkpoints and *)
(* restarts of the recovery process.                                       *)
(***************************************************************************)
THEOREM LogInvariance == LogSpec => []LogInv
BY LogInitInv, LogInvStep, PTL DEF LogSpec

(***************************************************************************)
(* Type correctness of the coordinator's log and shared memory.            *)
(***************************************************************************)
THEOREM LogTypeCorrect == LogSpec => []LogTypeOK
<1>1. LogInv => LogTypeOK
  BY DEF LogInv
<1> QED BY <1>1, LogInvariance, PTL

(***************************************************************************)
(* No crash loses a distributed commit that has reached the log: this is   *)
(* the correctness of CreateCheckPoint() and getDtxCheckPointInfo() with   *)
(* respect to backends that commit at the same time.                       *)
(***************************************************************************)
THEOREM CommitNeverLost == LogSpec => []CommitNotLost
<1>1. LogInv => CommitNotLost
  BY ReplayDurable DEF CommitNotLost
<1> QED BY <1>1, LogInvariance, PTL

(***************************************************************************)
(* The replay never takes for committed what the crash has undone.         *)
(***************************************************************************)
THEOREM CommitNeverInvented == LogSpec => []NoPhantomCommit
<1>1. LogInv => NoPhantomCommit
  BY ReplayDurable DEF NoPhantomCommit
<1> QED BY <1>1, LogInvariance, PTL

(***************************************************************************)
(* A commit that the segments may not have heard of stays known to the     *)
(* running coordinator, so that the second phase is carried out.           *)
(***************************************************************************)
THEOREM PendingCommitNeverDropped == LogSpec => []PendingCommitKept
<1>1. LogInv => PendingCommitKept
  BY DEF LogInv
<1> QED BY <1>1, LogInvariance, PTL

-----------------------------------------------------------------------------
(* The distributed transaction manager                                      *)

HIDE LogAssumption
USE DtmAssumption

(* Backends, QEs, the recovery process and failures use the log only        *)
(* through its own operations.                                              *)
LEMMA LogStep == [Next]_vars => [LogNext]_logVars
<1> SUFFICES ASSUME [Next]_vars PROVE [LogNext]_logVars
  OBVIOUS
<1>1. ASSUME NEW g \in Gxid, User(g) PROVE UNCHANGED logVars
  BY <1>1 DEF User, currentDtxActivate, addToGxactDtxSegments, doNotifyingOnePhaseCommit,
              doPrepareTransaction
<1>2. ASSUME NEW g \in Gxid, QdCommits(g) PROVE LogNext \/ UNCHANGED logVars
  <2>1. CASE RecordCommit(g)
    BY <2>1 DEF RecordCommit, LogNext
  <2>2. CASE doInsertForgetCommitted(g)
    BY <2>2 DEF doInsertForgetCommitted, LogNext
  <2>3. CASE ~ RecordCommit(g) /\ ~ doInsertForgetCommitted(g)
    BY <1>2, <2>3 DEF QdCommits, EndOnePhase, PrepareSucceeded, doNotifyingCommitPrepared,
                      RetryCommitPrepared, EndTwoPhase
  <2> QED BY <2>1, <2>2, <2>3
<1>3. ASSUME NEW g \in Gxid, QdAborts(g) \/ QdExit(g) PROVE UNCHANGED logVars
  BY <1>3 DEF QdAborts, QdExit, RollbackOmitted, doNotifyingAbort, retryAbortPrepared, EndAbort
<1>4. ASSUME NEW g \in Gxid, NEW s \in Segment, QeRuns(g, s) PROVE UNCHANGED logVars
  BY <1>4 DEF QeRuns, performDtxProtocolCommand, performDtxProtocolPrepare,
              performDtxProtocolCommitOnePhase, AbortOutOfAnyTransaction,
              performDtxProtocolCommitPrepared, performDtxProtocolAbortPrepared,
              FinishPreparedError, Reply, AbandonCommand, QeExit
<1>5. CASE RecoveryProcess
  <2>1. ASSUME NEW g \in Gxid, RecoveredCommit(g) PROVE LogNext
    BY <2>1 DEF RecoveredCommit, LogNext
  <2>2. CASE RecoveryFatal \/ CommittedRecovered
    BY <2>2 DEF RecoveryFatal, CommittedRecovered, LogNext
  <2>3. ASSUME NEW g \in Gxid,
               doNotifyCommittedInDoubt(g) \/ doAbortInDoubt(g) \/ SkipInProgress(g) \/ AbortedInDoubt(g)
        PROVE  UNCHANGED logVars
    BY <2>3 DEF doNotifyCommittedInDoubt, doAbortInDoubt, SkipInProgress, AbortedInDoubt
  <2>4. ASSUME NEW s \in Segment, gatherRMInDoubtTransactions(s) PROVE UNCHANGED logVars
    BY <2>4 DEF gatherRMInDoubtTransactions
  <2>5. CASE RoundDone
    BY <2>5 DEF RoundDone
  <2> QED BY <1>5, <2>1, <2>2, <2>3, <2>4, <2>5 DEF RecoveryProcess
<1>6. CASE BackgroundLog
  BY <1>6 DEF BackgroundLog, LogNext
<1>7. CASE GatherFailed
  BY <1>7 DEF GatherFailed
<1>8. ASSUME NEW m \in msgs, LoseConnection(m) PROVE UNCHANGED logVars
  BY <1>8 DEF LoseConnection
<1>9. ASSUME NEW s \in Segment, SegmentRestart(s) PROVE UNCHANGED logVars
  BY <1>9 DEF SegmentRestart
<1>10. CASE CoordinatorCrash \/ CoordinatorStartup
  BY <1>10 DEF CoordinatorCrash, CoordinatorStartup, LogNext
<1>11. CASE UNCHANGED vars
  BY <1>11 DEF vars
<1> QED
  BY <1>1, <1>2, <1>3, <1>4, <1>5, <1>6, <1>7, <1>8, <1>9, <1>10, <1>11 DEF Next

(***************************************************************************)
(* The distributed transaction manager implements the coordinator's log.   *)
(***************************************************************************)
THEOREM ImplementsLog == Spec => LogSpec
<1>1. Init => LogInit
  BY DEF Init
<1> QED BY <1>1, LogStep, PTL DEF Spec, LogSpec

(***************************************************************************)
(* With all the backends, segments and failures around it, the log loses   *)
(* no commit.                                                              *)
(***************************************************************************)
THEOREM DtmCommitNeverLost == Spec => [](CommitNotLost /\ NoPhantomCommit /\ PendingCommitKept)
BY ImplementsLog, CommitNeverLost, CommitNeverInvented, PendingCommitNeverDropped, PTL

-----------------------------------------------------------------------------
(* What sending a protocol command does, over the old gang or a new one.    *)
LEMMA DispatchFacts ==
    ASSUME TypeOK, NEW g \in Gxid, NEW T \in SUBSET Segment, NEW cmd \in DtxProtocolCommand,
           Dispatch(g, T, cmd) \/ DispatchNewGang(g, T, cmd)
    PROVE  /\ msgs \subseteq msgs'
           /\ msgs' \subseteq Message
           /\ \A m \in msgs' :
                 m \in msgs \/ (m.gxid = g /\ m.cmd = cmd /\ m.live = TRUE /\ m.seg \in pending'[g])
           /\ pending' \in [Gxid -> SUBSET Segment]
           /\ \A h \in Gxid : h # g => pending'[h] = pending[h] /\ (h \in failed' <=> h \in failed)
           /\ failed' \subseteq Gxid
           /\ g \notin failed' => pending'[g] = T
           /\ gangLost' \subseteq Gxid
           /\ qe' \in [Gxid -> [Segment -> QEContext]]
<1>1. PICK alive \in SUBSET T :
          /\ msgs' = msgs \cup Commands(g, alive, cmd)
          /\ pending' = [pending EXCEPT ![g] = alive]
          /\ failed' = (IF alive = T THEN failed \ {g} ELSE failed \cup {g})
          /\ gangLost' \subseteq gangLost \cup {g}
  <2>1. CASE Dispatch(g, T, cmd)
    <3> DEFINE alive == {s \in T : qe[g][s] # "dead"}
    <3>1. alive \in SUBSET T
      OBVIOUS
    <3> QED BY <2>1, <3>1 DEF Dispatch
  <2>2. CASE DispatchNewGang(g, T, cmd)
    BY <2>2 DEF DispatchNewGang
  <2> QED BY <2>1, <2>2
<1>2. Commands(g, alive, cmd) \subseteq Message
  <2>1. TRUE \in BOOLEAN
    OBVIOUS
  <2>2. \A s \in alive : [gxid |-> g, seg |-> s, cmd |-> cmd, live |-> TRUE] \in Message
    BY <2>1, Zenon DEF Message
  <2> QED BY <2>2, Zenon DEF Commands
<1>3. \A m \in Commands(g, alive, cmd) : m.gxid = g /\ m.cmd = cmd /\ m.live = TRUE /\ m.seg \in alive
  BY DEF Commands
<1>4. qe' \in [Gxid -> [Segment -> QEContext]]
  <2>1. CASE Dispatch(g, T, cmd)
    BY <2>1 DEF Dispatch, TypeOK
  <2>2. CASE DispatchNewGang(g, T, cmd)
    <3>1. [s \in Segment |-> "LOCAL_ONLY"] \in [Segment -> QEContext]
      BY DEF QEContext
    <3> QED BY <2>2, <3>1 DEF DispatchNewGang, ResetAllGangs, TypeOK
  <2> QED BY <2>1, <2>2
<1>5. pending'[g] = alive
  BY <1>1 DEF TypeOK
<1> QED BY <1>1, <1>2, <1>3, <1>4, <1>5 DEF TypeOK

(* What the answer of a QE does: it counts only for a sender that waits.    *)
LEMMA ReplyFacts ==
    ASSUME TypeOK, NEW m \in msgs, NEW ok \in BOOLEAN, NEW context \in QEContext,
           Reply(m, ok, context)
    PROVE  /\ msgs' = msgs \ {m}
           /\ qe' \in [Gxid -> [Segment -> QEContext]]
           /\ pending' \in [Gxid -> SUBSET Segment]
           /\ failed \subseteq failed' /\ failed' \subseteq Gxid
           /\ \A h \in Gxid :
                 pending'[h] = IF m.live /\ m.cmd \notin RecoveryCmd /\ h = m.gxid
                               THEN pending[h] \ {m.seg} ELSE pending[h]
           /\ m.live /\ m.cmd \notin RecoveryCmd /\ ~ ok => m.gxid \in failed'
           /\ recPending' = IF m.live /\ m.cmd \in RecoveryCmd THEN recPending \ {m.seg} ELSE recPending
           /\ recFailed' \in BOOLEAN
           /\ recFailed => recFailed'
           /\ m.live /\ m.cmd \in RecoveryCmd /\ ~ ok => recFailed'
<1>0. m.gxid \in Gxid /\ m.seg \in Segment /\ m.live \in BOOLEAN
  BY DEF TypeOK, Message
<1>1. CASE ~ m.live
  BY <1>1, SMT DEF Reply, TypeOK
<1>2. CASE m.live /\ m.cmd \in RecoveryCmd
  <2>1. /\ msgs' = msgs \ {m} /\ qe' = qe /\ pending' = pending /\ failed' = failed
        /\ recPending' = recPending \ {m.seg}
    BY <1>2 DEF Reply
  <2>2. recFailed' = (recFailed \/ ~ ok)
    BY <1>2 DEF Reply
  <2>3. recFailed' \in BOOLEAN /\ (recFailed => recFailed') /\ (~ ok => recFailed')
    BY <2>2, Zenon
  <2> QED BY <1>2, <2>1, <2>3 DEF TypeOK
<1>3. CASE m.live /\ m.cmd \notin RecoveryCmd
  <2>1. /\ msgs' = msgs \ {m}
        /\ qe' = [qe EXCEPT ![m.gxid][m.seg] = context]
        /\ pending' = [pending EXCEPT ![m.gxid] = @ \ {m.seg}]
        /\ failed' = IF ok THEN failed ELSE failed \cup {m.gxid}
        /\ recPending' = recPending /\ recFailed' = recFailed
    BY <1>3 DEF Reply
  <2>2. qe' \in [Gxid -> [Segment -> QEContext]]
    BY <1>0, <2>1 DEF TypeOK
  <2>3. /\ pending' \in [Gxid -> SUBSET Segment]
        /\ \A h \in Gxid : pending'[h] = IF h = m.gxid THEN pending[h] \ {m.seg} ELSE pending[h]
    BY <1>0, <2>1 DEF TypeOK
  <2>4. failed \subseteq failed' /\ failed' \subseteq Gxid /\ (~ ok => m.gxid \in failed')
    BY <1>0, <2>1 DEF TypeOK
  <2> QED BY <1>3, <2>1, <2>2, <2>3, <2>4 DEF TypeOK
<1> QED BY <1>1, <1>2, <1>3

\* How a QE that runs m moves its part of the transaction from old to new.
QeMove(m, old, new, ok) ==
    \/ new = old /\ (ok => m.cmd \in RollbackCmd \/ (m.cmd \in CommitCmd /\ old # "prepared"))
    \/ old = "active" /\ new = "aborted" /\ (ok => m.cmd \in RollbackCmd)
    \/ old = "active" /\ new = "prepared" /\ m.cmd = "PREPARE"
    \/ old = "active" /\ new = "committed" /\ m.cmd = "COMMIT_ONEPHASE"
    \/ old = "prepared" /\ new = "committed" /\ m.cmd \in CommitCmd
    \/ old = "prepared" /\ new = "aborted" /\ m.cmd \in RollbackCmd

(* performDtxProtocolCommand() on any command, in one formula.              *)
LEMMA PerformFacts ==
    ASSUME TypeOK, NEW m \in msgs, performDtxProtocolCommand(m)
    PROVE  \E ok \in BOOLEAN, context \in QEContext, new \in LocalState :
              /\ Reply(m, ok, context)
              /\ QeMove(m, local[m.gxid][m.seg], new, ok)
              /\ local' \in [Gxid -> [Segment -> LocalState]]
              /\ \A h \in Gxid, t \in Segment :
                    local'[h][t] = IF h = m.gxid /\ t = m.seg THEN new ELSE local[h][t]
<1> DEFINE old == local[m.gxid][m.seg]
<1>0. m.gxid \in Gxid /\ m.seg \in Segment /\ old \in LocalState
  BY DEF TypeOK, Message
<1>1. ASSUME NEW new \in LocalState, SetLocal(m, new) \/ (UNCHANGED local /\ new = old)
      PROVE  /\ local' \in [Gxid -> [Segment -> LocalState]]
             /\ \A h \in Gxid, t \in Segment :
                   local'[h][t] = IF h = m.gxid /\ t = m.seg THEN new ELSE local[h][t]
  <2>1. CASE SetLocal(m, new)
    <3>1. local' = [local EXCEPT ![m.gxid] = [local[m.gxid] EXCEPT ![m.seg] = new]]
      BY <2>1 DEF SetLocal
    <3>2. local \in [Gxid -> [Segment -> LocalState]]
      BY DEF TypeOK
    <3> QED BY <1>0, <3>1, <3>2
  <2>2. CASE UNCHANGED local /\ new = old
    BY <1>0, <2>2 DEF TypeOK
  <2> QED BY <1>1, <2>1, <2>2
<1>2. ASSUME NEW ok \in BOOLEAN, NEW context \in QEContext, NEW new \in LocalState,
             Reply(m, ok, context), SetLocal(m, new) \/ (UNCHANGED local /\ new = old),
             QeMove(m, old, new, ok)
      PROVE  \E ok1 \in BOOLEAN, context1 \in QEContext, new1 \in LocalState :
              /\ Reply(m, ok1, context1)
              /\ QeMove(m, old, new1, ok1)
              /\ local' \in [Gxid -> [Segment -> LocalState]]
              /\ \A h \in Gxid, t \in Segment :
                    local'[h][t] = IF h = m.gxid /\ t = m.seg THEN new1 ELSE local[h][t]
  BY <1>1, <1>2, Zenon
<1>c. /\ {"LOCAL_ONLY", "PREPARED"} \subseteq QEContext
      /\ {"prepared", "committed", "aborted"} \subseteq LocalState
      /\ TRUE \in BOOLEAN /\ FALSE \in BOOLEAN
  BY DEF QEContext, LocalState
<1> HIDE DEF old
<1>3. CASE performDtxProtocolPrepare(m)
  BY <1>0, <1>2, <1>3, <1>c DEF performDtxProtocolPrepare, QeMove, old
<1>4. CASE performDtxProtocolCommitOnePhase(m)
  BY <1>0, <1>2, <1>4, <1>c DEF performDtxProtocolCommitOnePhase, QeMove, old
<1>5. CASE AbortOutOfAnyTransaction(m)
  BY <1>0, <1>2, <1>5, <1>c DEF AbortOutOfAnyTransaction, QeMove, RollbackCmd, old
<1>6. CASE performDtxProtocolCommitPrepared(m)
  BY <1>0, <1>2, <1>6, <1>c DEF performDtxProtocolCommitPrepared, QeMove, CommitCmd, old
<1>7. CASE performDtxProtocolAbortPrepared(m)
  BY <1>0, <1>2, <1>7, <1>c DEF performDtxProtocolAbortPrepared, QeMove, RollbackCmd, old
<1>8. CASE FinishPreparedError(m)
  BY <1>0, <1>2, <1>8, <1>c DEF FinishPreparedError, QeMove, old
<1> QED BY <1>3, <1>4, <1>5, <1>6, <1>7, <1>8 DEF performDtxProtocolCommand, old

-----------------------------------------------------------------------------
(* The type invariant is kept by every action.                              *)
LEMMA TypeStep == TypeOK /\ LogInv /\ [Next]_vars => TypeOK'
<1> SUFFICES ASSUME TypeOK, LogInv, [Next]_vars PROVE TypeOK'
  OBVIOUS
<1>0. LogTypeOK'
  BY LogStep, LogInvStep DEF LogInv
<1>s. DtxState = DtxState \cup {"NONE"} /\ {"commit", "abort"} \subseteq {"none", "commit", "abort"}
  BY DEF DtxState
<1>c. "LOCAL_ONLY" \in QEContext /\ "dead" \in QEContext /\ "WRITER" \in QEContext
  BY DEF QEContext
<1>l. "active" \in LocalState /\ "aborted" \in LocalState
  BY DEF LocalState
<1>p. /\ {"PREPARE", "COMMIT_ONEPHASE", "ABORT_NO_PREPARED", "ABORT_SOME_PREPARED", "COMMIT_PREPARED",
          "RETRY_COMMIT_PREPARED", "ABORT_PREPARED", "RETRY_ABORT_PREPARED"} \subseteq DtxProtocolCommand
      /\ RecoveryCmd \subseteq DtxProtocolCommand
  BY DEF DtxProtocolCommand, CommitCmd, AbortCmd, RecoveryCmd
<1>r. ASSUME NEW g \in Gxid, ResetAllGangs(g) PROVE qe' \in [Gxid -> [Segment -> QEContext]]
  BY <1>r, <1>c DEF ResetAllGangs, TypeOK
<1>e. ASSUME NEW g \in Gxid, NEW answer \in {"none", "commit", "abort"}, EndDtx(g, answer)
      PROVE  /\ dtxState' \in [Gxid -> DtxState]
             /\ procArray' \subseteq Gxid
             /\ told' \in [Gxid -> {"none", "commit", "abort"}]
  BY <1>e, <1>s DEF EndDtx, TypeOK
<1>t. ASSUME NEW g \in Gxid, NEW state \in DtxState, SetState(g, state)
      PROVE  dtxState' \in [Gxid -> DtxState]
  BY <1>t DEF SetState, TypeOK
<1>1. ASSUME NEW g \in Gxid, User(g) PROVE TypeOK'
  <2>1. CASE currentDtxActivate(g)
    <3>1. dtxState' \in [Gxid -> DtxState]
      BY <2>1, <1>t DEF currentDtxActivate, DtxState
    <3> QED BY <1>0, <2>1, <3>1 DEF currentDtxActivate, TypeOK, segVars, dtrVars
  <2>2. ASSUME NEW s \in Segment, NEW writes \in BOOLEAN, addToGxactDtxSegments(g, s, writes)
        PROVE  TypeOK'
    <3>1. /\ dtxSegments' = [dtxSegments EXCEPT ![g] = @ \cup {s}]
          /\ wrote' = (IF writes THEN [wrote EXCEPT ![g] = @ \cup {s}] ELSE wrote)
          /\ local' = [local EXCEPT ![g] = [local[g] EXCEPT ![s] = "active"]]
          /\ qe' = [qe EXCEPT ![g] = [qe[g] EXCEPT ![s] = "WRITER"]]
      BY <2>2 DEF addToGxactDtxSegments
    <3>2. local' \in [Gxid -> [Segment -> LocalState]]
      BY <3>1, <1>l DEF TypeOK
    <3>3. qe' \in [Gxid -> [Segment -> QEContext]]
      BY <3>1, <1>c DEF TypeOK
    <3>4. dtxSegments' \in [Gxid -> SUBSET Segment] /\ wrote' \in [Gxid -> SUBSET Segment]
      BY <3>1 DEF TypeOK
    <3> QED BY <1>0, <2>2, <3>2, <3>3, <3>4 DEF addToGxactDtxSegments, TypeOK, dtrVars
  <2>3. ASSUME NEW xid \in BOOLEAN, doNotifyingOnePhaseCommit(g, xid) PROVE TypeOK'
    <3>1. dtxState' \in [Gxid -> DtxState] /\ onePhase' \subseteq Gxid
      BY <2>3, <1>t DEF doNotifyingOnePhaseCommit, DtxState, TypeOK
    <3>2. dtxSegments[g] \in SUBSET Segment
      BY DEF TypeOK
    <3>3. CASE dtxSegments[g] = {}
      BY <1>0, <2>3, <3>1, <3>3 DEF doNotifyingOnePhaseCommit, TypeOK, segVars, dtrVars
    <3>4. CASE dtxSegments[g] # {}
      <4>1. Dispatch(g, dtxSegments[g], "COMMIT_ONEPHASE") /\ local' = local
        BY <2>3, <3>4 DEF doNotifyingOnePhaseCommit
      <4> QED BY <1>0, <1>p, <2>3, <3>1, <3>2, <4>1, DispatchFacts
              DEF doNotifyingOnePhaseCommit, TypeOK, dtrVars
    <3> QED BY <3>3, <3>4
  <2>4. ASSUME NEW xid \in BOOLEAN, doPrepareTransaction(g, xid) PROVE TypeOK'
    <3>1. dtxState' \in [Gxid -> DtxState]
      BY <2>4, <1>t DEF doPrepareTransaction, DtxState
    <3>2. dtxSegments[g] \in SUBSET Segment
      BY DEF TypeOK
    <3>3. Dispatch(g, dtxSegments[g], "PREPARE")
      BY <2>4 DEF doPrepareTransaction
    <3> QED BY <1>0, <1>p, <2>4, <3>1, <3>2, <3>3, DispatchFacts DEF doPrepareTransaction, TypeOK, dtrVars
  <2> QED BY <1>1, <2>1, <2>2, <2>3, <2>4 DEF User
<1>2. ASSUME NEW g \in Gxid, QdCommits(g) PROVE TypeOK'
  <2>1. CASE EndOnePhase(g)
    BY <1>0, <1>e, <2>1 DEF EndOnePhase, TypeOK, segVars, dtrVars
  <2>2. CASE PrepareSucceeded(g)
    <3>1. dtxState' \in [Gxid -> DtxState]
      BY <2>2, <1>t DEF PrepareSucceeded, DtxState
    <3> QED BY <1>0, <2>2, <3>1 DEF PrepareSucceeded, TypeOK, segVars, dtrVars
  <2>3. CASE RecordCommit(g)
    <3>1. dtxState' \in [Gxid -> DtxState]
      BY <2>3, <1>t DEF RecordCommit, DtxState, TypeOK
    <3> QED BY <1>0, <2>3, <3>1 DEF RecordCommit, TypeOK, segVars, dtrVars
  <2>4. CASE doNotifyingCommitPrepared(g) \/ RetryCommitPrepared(g)
    <3>1. dtxState' \in [Gxid -> DtxState]
      BY <2>4, <1>t DEF doNotifyingCommitPrepared, RetryCommitPrepared, DtxState
    <3>2. dtxSegments[g] \in SUBSET Segment
      BY DEF TypeOK
    <3>3. PICK cmd \in DtxProtocolCommand : \/ Dispatch(g, dtxSegments[g], cmd)
                                           \/ DispatchNewGang(g, dtxSegments[g], cmd)
      BY <2>4, <1>p DEF doNotifyingCommitPrepared, RetryCommitPrepared
    <3> QED BY <1>0, <2>4, <3>1, <3>2, <3>3, DispatchFacts
            DEF doNotifyingCommitPrepared, RetryCommitPrepared, TypeOK, dtrVars
  <2>5. CASE doInsertForgetCommitted(g)
    <3>1. dtxState' \in [Gxid -> DtxState]
      BY <2>5, <1>t DEF doInsertForgetCommitted, DtxState
    <3> QED BY <1>0, <2>5, <3>1 DEF doInsertForgetCommitted, TypeOK, segVars, dtrVars
  <2>6. CASE EndTwoPhase(g)
    BY <1>0, <1>e, <2>6 DEF EndTwoPhase, TypeOK, segVars, dtrVars
  <2> QED BY <1>2, <2>1, <2>2, <2>3, <2>4, <2>5, <2>6 DEF QdCommits
<1>3. ASSUME NEW g \in Gxid, QdAborts(g) \/ QdExit(g) PROVE TypeOK'
  <2>1. CASE RollbackOmitted(g) \/ EndAbort(g)
    BY <1>0, <1>e, <1>r, <2>1 DEF RollbackOmitted, EndAbort, TypeOK, dtrVars
  <2>2. CASE QdExit(g)
    <3>1. told[g] \in {"none", "commit", "abort"}
      BY DEF TypeOK
    <3> QED BY <1>0, <1>e, <1>r, <2>2, <3>1 DEF QdExit, TypeOK, dtrVars
  <2>3. CASE doNotifyingAbort(g)
    <3>1. dtxState' \in [Gxid -> DtxState]
      BY <2>3, <1>t DEF doNotifyingAbort, DtxState
    <3>2. dtxSegments[g] \in SUBSET Segment
      BY DEF TypeOK
    <3>3. PICK cmd \in DtxProtocolCommand : Dispatch(g, dtxSegments[g], cmd)
      BY <2>3, <1>p DEF doNotifyingAbort
    <3> QED BY <1>0, <2>3, <3>1, <3>2, <3>3, DispatchFacts DEF doNotifyingAbort, TypeOK, dtrVars
  <2>4. CASE retryAbortPrepared(g)
    <3>1. dtxState' \in [Gxid -> DtxState]
      BY <2>4, <1>t DEF retryAbortPrepared, DtxState
    <3>2. dtxSegments' \in [Gxid -> SUBSET Segment]
      BY <2>4 DEF retryAbortPrepared, TypeOK
    <3>3. DispatchNewGang(g, Segment, "RETRY_ABORT_PREPARED")
      BY <2>4 DEF retryAbortPrepared
    <3> QED BY <1>0, <1>p, <2>4, <3>1, <3>2, <3>3, DispatchFacts DEF retryAbortPrepared, TypeOK, dtrVars
  <2> QED BY <1>3, <2>1, <2>2, <2>3, <2>4 DEF QdAborts
<1>4. ASSUME NEW g \in Gxid, NEW s \in Segment, QeRuns(g, s) PROVE TypeOK'
  <2>1. ASSUME NEW m \in msgs, performDtxProtocolCommand(m) PROVE TypeOK'
    <3>1. PICK ok \in BOOLEAN, context \in QEContext :
             Reply(m, ok, context) /\ local' \in [Gxid -> [Segment -> LocalState]]
      BY <2>1, PerformFacts
    <3>f. faults' = faults \/ (faults < MaxFault /\ faults' = faults + 1)
      BY <2>1, Zenon DEF performDtxProtocolCommand, performDtxProtocolPrepare,
              performDtxProtocolCommitOnePhase, AbortOutOfAnyTransaction,
              performDtxProtocolCommitPrepared, performDtxProtocolAbortPrepared,
              FinishPreparedError
    <3>2. faults' \in 0 .. MaxFault
      BY <3>f DEF TypeOK
    <3>3. /\ msgs' \subseteq Message /\ failed' \subseteq Gxid /\ recPending' \subseteq Segment
          /\ qe' \in [Gxid -> [Segment -> QEContext]] /\ pending' \in [Gxid -> SUBSET Segment]
          /\ recFailed' \in BOOLEAN
      BY <3>1, ReplyFacts DEF TypeOK
    <3> QED BY <1>0, <3>1, <3>2, <3>3 DEF Reply, TypeOK
  <2>2. ASSUME NEW m \in msgs, AbandonCommand(m) PROVE TypeOK'
    BY <1>0, <2>2 DEF AbandonCommand, TypeOK, qdVars, dtrVars
  <2>3. CASE QeExit(g, s)
    <3>1. local' = [local EXCEPT ![g] = [local[g] EXCEPT ![s] = "aborted"]]
      BY <2>3 DEF QeExit
    <3>2. local' \in [Gxid -> [Segment -> LocalState]]
      BY <3>1, <1>l DEF TypeOK
    <3> QED BY <1>0, <2>3, <3>2 DEF QeExit, TypeOK, qdVars, dtrVars
  <2> QED BY <1>4, <2>1, <2>2, <2>3 DEF QeRuns
<1>5. CASE RecoveryProcess
  <2>1. ASSUME NEW g \in Gxid, doNotifyCommittedInDoubt(g) \/ doAbortInDoubt(g) PROVE TypeOK'
    <3>1. PICK cmd \in RecoveryCmd : RecDispatch(g, cmd)
      BY <2>1 DEF doNotifyCommittedInDoubt, doAbortInDoubt, RecoveryCmd
    <3>2. Commands(g, Segment, cmd) \subseteq Message
      <4>1. TRUE \in BOOLEAN /\ cmd \in DtxProtocolCommand
        BY <1>p
      <4>2. \A s \in Segment : [gxid |-> g, seg |-> s, cmd |-> cmd, live |-> TRUE] \in Message
        BY <4>1, Zenon DEF Message
      <4> QED BY <4>2, Zenon DEF Commands
    <3>3. recFailed' \in BOOLEAN
      BY <3>1, Zenon DEF RecDispatch
    <3> QED BY <1>0, <2>1, <3>1, <3>2, <3>3
            DEF doNotifyCommittedInDoubt, doAbortInDoubt, RecDispatch, TypeOK, qdVars
  <2>2. ASSUME NEW g \in Gxid, RecoveredCommit(g) \/ SkipInProgress(g) PROVE TypeOK'
    BY <1>0, <2>2 DEF RecoveredCommit, SkipInProgress, TypeOK, qdVars, segVars
  <2>3. ASSUME NEW g \in Gxid, AbortedInDoubt(g) PROVE TypeOK'
    <3>1. recFailed' \in BOOLEAN
      BY <2>3, Zenon DEF AbortedInDoubt
    <3> QED BY <1>0, <2>3, <3>1 DEF AbortedInDoubt, TypeOK, qdVars, segVars
  <2>4. CASE RecoveryFatal \/ CommittedRecovered
    BY <1>0, <2>4 DEF RecoveryFatal, CommittedRecovered, TypeOK, qdVars, segVars
  <2>5. ASSUME NEW s \in Segment, gatherRMInDoubtTransactions(s) PROVE TypeOK'
    BY <1>0, <2>5 DEF gatherRMInDoubtTransactions, TypeOK, qdVars, segVars
  <2>6. CASE RoundDone
    <3>1. dtmStarted' \in BOOLEAN
      BY <2>6, Zenon DEF RoundDone
    <3> QED BY <1>0, <2>6, <3>1 DEF RoundDone, TypeOK, qdVars, segVars
  <2> QED BY <1>5, <2>1, <2>2, <2>3, <2>4, <2>5, <2>6 DEF RecoveryProcess
<1>6. CASE BackgroundLog
  BY <1>0, <1>6 DEF BackgroundLog, TypeOK, qdVars, segVars, dtrVars
<1>7. CASE GatherFailed
  BY <1>0, <1>7 DEF GatherFailed, TypeOK, qdVars, segVars
<1>8. ASSUME NEW m \in msgs, LoseConnection(m) PROVE TypeOK'
  <2>0. m.gxid \in Gxid /\ m.seg \in Segment
    BY DEF TypeOK, Message
  <2>1. msgs' \subseteq Message
    <3>1. m \in Message /\ FALSE \in BOOLEAN
      BY DEF TypeOK
    <3>2. [m EXCEPT !.live = FALSE] \in Message
      BY <3>1, Zenon DEF Message
    <3> QED BY <1>8, <3>2 DEF LoseConnection, TypeOK
  <2>2. recFailed' \in BOOLEAN
    BY <1>8, Zenon DEF LoseConnection, TypeOK
  <2>3. qe' \in [Gxid -> [Segment -> QEContext]]
    <3>1. qe' = qe \/ qe' = [qe EXCEPT ![m.gxid] = [qe[m.gxid] EXCEPT ![m.seg] = "dead"]]
      BY <1>8 DEF LoseConnection
    <3>2. [qe EXCEPT ![m.gxid] = [qe[m.gxid] EXCEPT ![m.seg] = "dead"]] \in [Gxid -> [Segment -> QEContext]]
      BY <1>c, <2>0 DEF TypeOK
    <3> QED BY <3>1, <3>2 DEF TypeOK
  <2>4. /\ pending' \in [Gxid -> SUBSET Segment] /\ failed' \subseteq Gxid /\ gangLost' \subseteq Gxid
        /\ recPending' \subseteq Segment
    BY <1>8, <2>0 DEF LoseConnection, TypeOK
  <2>5. faults' \in 0 .. MaxFault
    BY <1>8 DEF LoseConnection, TypeOK
  <2> QED BY <1>0, <1>8, <2>1, <2>2, <2>3, <2>4, <2>5 DEF LoseConnection, TypeOK
<1>9. ASSUME NEW s \in Segment, SegmentRestart(s) PROVE TypeOK'
  <2> DEFINE hit == {m.gxid : m \in {n \in msgs : n.seg = s /\ n.live /\ n.cmd \notin RecoveryCmd}}
  <2>1. hit \subseteq Gxid
    BY DEF TypeOK, Message
  <2>2. failed' = failed \cup hit /\ gangLost' = gangLost \cup hit
    BY <1>9 DEF SegmentRestart
  <2>3. local' \in [Gxid -> [Segment -> LocalState]]
    BY <1>9, <1>l DEF SegmentRestart, TypeOK
  <2>4. qe' \in [Gxid -> [Segment -> QEContext]]
    BY <1>9, <1>c DEF SegmentRestart, TypeOK
  <2> HIDE DEF hit
  <2>5. /\ pending' \in [Gxid -> SUBSET Segment] /\ failed' \subseteq Gxid /\ gangLost' \subseteq Gxid
        /\ recPending' \subseteq Segment /\ msgs' \subseteq Message
    BY <1>9, <2>1, <2>2 DEF SegmentRestart, TypeOK
  <2>6. recFailed' \in BOOLEAN
    BY <1>9, Zenon DEF SegmentRestart
  <2>7. faults' \in 0 .. MaxFault
    BY <1>9 DEF SegmentRestart, TypeOK
  <2> QED BY <1>0, <1>9, <2>3, <2>4, <2>5, <2>6, <2>7 DEF SegmentRestart, TypeOK
<1>10. CASE CoordinatorCrash
  <2>1. msgs' \subseteq Message
    <3>1. FALSE \in BOOLEAN
      OBVIOUS
    <3>2. \A m \in Message : [m EXCEPT !.live = FALSE] \in Message
      BY <3>1, Zenon DEF Message
    <3> QED BY <1>10, <3>2 DEF CoordinatorCrash, TypeOK
  <2>2. dtmStarted' \in BOOLEAN /\ recFailed' \in BOOLEAN
    BY <1>10, Zenon DEF CoordinatorCrash
  <2>3. dtxState' \in [Gxid -> DtxState] /\ qe' \in [Gxid -> [Segment -> QEContext]]
    BY <1>10, <1>s, <1>c DEF CoordinatorCrash
  <2> QED BY <1>0, <1>10, <2>1, <2>2, <2>3 DEF CoordinatorCrash, TypeOK
<1>11. CASE CoordinatorStartup
  BY <1>0, <1>11 DEF CoordinatorStartup, TypeOK, qdVars, segVars
<1>12. CASE UNCHANGED vars
  BY <1>0, <1>12 DEF vars, TypeOK, qdVars, segVars, dtrVars
<1> QED
  BY <1>1, <1>2, <1>3, <1>4, <1>5, <1>6, <1>7, <1>8, <1>9, <1>10, <1>11, <1>12 DEF Next

(***************************************************************************)
(* Type correctness of the distributed transaction manager.                *)
(***************************************************************************)
THEOREM TypeCorrect == Spec => []TypeOK
<1>1. Init => TypeOK
  <2> SUFFICES ASSUME Init PROVE TypeOK
    OBVIOUS
  <2>1. LogTypeOK
    BY LogInitInv DEF Init, LogInv
  <2>2. dtmStarted \in BOOLEAN /\ recFailed \in BOOLEAN
    BY Zenon DEF Init
  <2>3. "NONE" \in DtxState /\ "LOCAL_ONLY" \in QEContext /\ "none" \in LocalState
    BY DEF DtxState, QEContext, LocalState
  <2> QED BY <2>1, <2>2, <2>3 DEF Init, TypeOK
<1>2. TypeOK /\ LogInv /\ [Next]_vars => TypeOK'
  BY TypeStep
<1> QED BY <1>1, <1>2, ImplementsLog, LogInvariance, PTL DEF Spec

-----------------------------------------------------------------------------
(* Steps seen from one transaction.                                         *)

\* A step of the backend of transaction g.
Backend(g) == User(g) \/ QdCommits(g) \/ QdAborts(g) \/ QdExit(g)

SameLog(h) ==
    /\ h \in delayChkpt' <=> h \in delayChkpt
    /\ h \in includeInCkpt' <=> h \in includeInCkpt
    /\ HasCommit(h)' <=> HasCommit(h)
    /\ HasForget(h) => HasForget(h)'
    /\ HasForget(h)' => HasForget(h) \/ RecoveredCommit(h)
    /\ Durable(h) => Durable(h)'

SameState(h) ==
    /\ dtxState'[h] = dtxState[h]
    /\ h \in procArray' <=> h \in procArray
    /\ dtxSegments'[h] = dtxSegments[h]
    /\ wrote'[h] = wrote[h]
    /\ told'[h] = told[h]
    /\ h \in onePhase' <=> h \in onePhase
    /\ h \in used' <=> h \in used

(* The log says the same of h as before unless h's backend or a crash is at *)
(* work.                                                                    *)
LEMMA OtherLog ==
    ASSUME TypeOK, LogInv, Next, NEW h \in Gxid, ~ Backend(h), ~ CoordinatorCrash
    PROVE  SameLog(h)
<1>0. LogTypeOK /\ LsnOrder /\ LogTypeOK'
  BY LogStep, LogTypeStep DEF LogInv
<1>1. ASSUME UNCHANGED logVars PROVE SameLog(h)
  <2>1. wal' = wal /\ flushLsn' = flushLsn /\ delayChkpt' = delayChkpt /\ includeInCkpt' = includeInCkpt
    BY <1>1 DEF logVars, walVars, memVars
  <2>2. flushLsn <= flushLsn'
    BY <1>0, <2>1 DEF LogTypeOK
  <2> QED BY <1>0, <2>1, <2>2, LogAfterFlush DEF SameLog
<1>2. ASSUME wal' = wal, flushLsn <= flushLsn', h \in delayChkpt' <=> h \in delayChkpt,
             h \in includeInCkpt' <=> h \in includeInCkpt
      PROVE  SameLog(h)
  BY <1>0, <1>2, LogAfterFlush DEF SameLog
<1>3. ASSUME NEW g \in Gxid, Backend(g) PROVE SameLog(h)
  <2>0. g # h
    BY <1>3
  <2>1. CASE RecordCommit(g)
    <3>1. CASE SetDelayChkpt(g) \/ insertedDistributedCommitted(g)
      BY <1>0, <1>2, <2>0, <3>1 DEF SetDelayChkpt, insertedDistributedCommitted, walVars, LogTypeOK
    <3>2. CASE insertingDistributedCommitted(g)
      <4>1. XLogInsert("commit", g) /\ UNCHANGED <<flushLsn, delayChkpt, includeInCkpt>>
        BY <3>2 DEF insertingDistributedCommitted, memVars
      <4> QED BY <1>0, <2>0, <4>1, LogAfterInsert DEF SameLog
    <3>3. CASE FlushCommitRecord(g)
      <4>1. flushLsn <= flushLsn'
        BY <1>0, <3>3 DEF FlushCommitRecord, LogTypeOK, Record
      <4> QED BY <1>0, <1>2, <2>0, <3>3, <4>1 DEF FlushCommitRecord
    <3> QED BY <2>1, <3>1, <3>2, <3>3 DEF RecordCommit
  <2>2. CASE doInsertForgetCommitted(g)
    <3>1. CASE RecordDistributedForgetCommitted(g)
      <4>1. XLogInsert("forget", g) /\ UNCHANGED <<flushLsn, delayChkpt, includeInCkpt>>
        BY <3>1 DEF RecordDistributedForgetCommitted, memVars
      <4> QED BY <1>0, <2>0, <4>1, LogAfterInsert DEF SameLog
    <3>2. CASE ClearIncludeInCkpt(g)
      BY <1>0, <1>2, <2>0, <3>2 DEF ClearIncludeInCkpt, walVars, LogTypeOK
    <3> QED BY <2>2, <3>1, <3>2 DEF doInsertForgetCommitted
  <2>3. CASE ~ RecordCommit(g) /\ ~ doInsertForgetCommitted(g)
    <3>1. UNCHANGED logVars
      BY <1>3, <2>3 DEF Backend, User, QdCommits, QdAborts, QdExit,
         currentDtxActivate, addToGxactDtxSegments, doNotifyingOnePhaseCommit, doPrepareTransaction,
         EndOnePhase, PrepareSucceeded, doNotifyingCommitPrepared, RetryCommitPrepared, EndTwoPhase,
         RollbackOmitted, doNotifyingAbort, retryAbortPrepared, EndAbort
    <3> QED BY <1>1, <3>1
  <2> QED BY <2>1, <2>2, <2>3
<1>4. ASSUME NEW g \in Gxid, NEW s \in Segment, QeRuns(g, s) PROVE SameLog(h)
  <2>1. UNCHANGED logVars
    BY <1>4 DEF QeRuns, performDtxProtocolCommand, performDtxProtocolPrepare,
              performDtxProtocolCommitOnePhase, AbortOutOfAnyTransaction,
              performDtxProtocolCommitPrepared, performDtxProtocolAbortPrepared,
              FinishPreparedError, Reply, AbandonCommand, QeExit
  <2> QED BY <1>1, <2>1
<1>5. CASE RecoveryProcess
  <2>1. ASSUME NEW g \in Gxid, RecoveredCommit(g) PROVE SameLog(h)
    <3>1. /\ XLogInsert("forget", g) /\ UNCHANGED <<flushLsn, delayChkpt, includeInCkpt>>
      BY <2>1 DEF RecoveredCommit, RecoveryForget, memVars
    <3> QED BY <1>0, <2>1, <3>1, LogAfterInsert DEF SameLog
  <2>2. CASE RecoveryFatal \/ CommittedRecovered
    BY <1>0, <1>2, <2>2 DEF RecoveryFatal, CommittedRecovered, RecoveryRestart, RecoveryClear,
                            walVars, memVars, LogTypeOK
  <2>3. ASSUME NEW g \in Gxid,
               doNotifyCommittedInDoubt(g) \/ doAbortInDoubt(g) \/ SkipInProgress(g) \/ AbortedInDoubt(g)
        PROVE  SameLog(h)
    BY <1>1, <2>3 DEF doNotifyCommittedInDoubt, doAbortInDoubt, SkipInProgress, AbortedInDoubt
  <2>4. ASSUME NEW s \in Segment, gatherRMInDoubtTransactions(s) PROVE SameLog(h)
    BY <1>1, <2>4 DEF gatherRMInDoubtTransactions
  <2>5. CASE RoundDone
    BY <1>1, <2>5 DEF RoundDone
  <2> QED BY <1>5, <2>1, <2>2, <2>3, <2>4, <2>5 DEF RecoveryProcess
<1>6. CASE BackgroundLog
  <2>1. wal' = wal /\ delayChkpt' = delayChkpt /\ includeInCkpt' = includeInCkpt
    BY <1>6 DEF BackgroundLog, XLogBackgroundFlush, CkptSetRedo, CkptGetDelaying, CkptWaited,
                getDtxCheckPointInfo, CkptWrite, walVars, memVars
  <2>2. flushLsn <= flushLsn'
    BY <1>0, <1>6 DEF BackgroundLog, XLogBackgroundFlush, CkptSetRedo, CkptGetDelaying, CkptWaited,
                getDtxCheckPointInfo, CkptWrite, walVars, LogTypeOK, LsnOrder
  <2> QED BY <1>2, <2>1, <2>2
<1>7. CASE GatherFailed \/ (\E m \in msgs : LoseConnection(m)) \/ (\E s \in Segment : SegmentRestart(s))
  <2>1. UNCHANGED logVars
    BY <1>7 DEF GatherFailed, LoseConnection, SegmentRestart
  <2> QED BY <1>1, <2>1
<1>8. CASE CoordinatorStartup
  BY <1>0, <1>2, <1>8 DEF CoordinatorStartup, StartupXLOG, memVars, LogTypeOK, LsnOrder
<1> QED BY <1>3, <1>4, <1>5, <1>6, <1>7, <1>8 DEF Next, Backend

(* Nobody but its backend and a crash touches the state of a transaction.   *)
LEMMA OtherState ==
    ASSUME TypeOK, Next, NEW h \in Gxid, ~ Backend(h), ~ CoordinatorCrash
    PROVE  SameState(h)
<1>1. ASSUME NEW g \in Gxid, Backend(g) PROVE SameState(h)
  <2>0. g # h
    BY <1>1
  <2> USE DEF SameState, TypeOK
  <2>1. CASE User(g)
    BY <2>0, <2>1 DEF User, SetState, currentDtxActivate, addToGxactDtxSegments,
                      doNotifyingOnePhaseCommit, doPrepareTransaction
  <2>2. CASE QdCommits(g)
    BY <2>0, <2>2 DEF QdCommits, SetState, EndDtx, EndOnePhase, PrepareSucceeded, RecordCommit,
                      doNotifyingCommitPrepared, RetryCommitPrepared, doInsertForgetCommitted, EndTwoPhase
  <2>3. CASE QdAborts(g) \/ QdExit(g)
    BY <2>0, <2>3 DEF QdAborts, QdExit, SetState, EndDtx, RollbackOmitted, doNotifyingAbort,
                      retryAbortPrepared, EndAbort
  <2> QED BY <1>1, <2>1, <2>2, <2>3 DEF Backend
<1>2. ASSUME UNCHANGED <<used, procArray, dtxState, dtxSegments, wrote, told, onePhase>>
      PROVE  SameState(h)
  BY <1>2 DEF SameState
<1>3. ASSUME NEW g \in Gxid, NEW s \in Segment, QeRuns(g, s) PROVE SameState(h)
  <2>1. ASSUME NEW m \in msgs, performDtxProtocolCommand(m) PROVE SameState(h)
    <3>1. PICK ok \in BOOLEAN, context \in QEContext : Reply(m, ok, context)
      BY <2>1, PerformFacts
    <3> QED BY <1>2, <3>1 DEF Reply
  <2>2. CASE QeExit(g, s) \/ (\E m \in msgs : AbandonCommand(m))
    BY <1>2, <2>2 DEF AbandonCommand, QeExit, qdVars
  <2> QED BY <1>3, <2>1, <2>2 DEF QeRuns
<1>4. CASE RecoveryProcess
  BY <1>2, <1>4 DEF RecoveryProcess, RecoveredCommit, RecoveryFatal, CommittedRecovered,
              doNotifyCommittedInDoubt, doAbortInDoubt, SkipInProgress, AbortedInDoubt,
              gatherRMInDoubtTransactions, RoundDone, qdVars
<1>5. CASE BackgroundLog \/ GatherFailed \/ CoordinatorStartup
  BY <1>2, <1>5 DEF BackgroundLog, GatherFailed, CoordinatorStartup, qdVars
<1>6. CASE (\E m \in msgs : LoseConnection(m)) \/ (\E s \in Segment : SegmentRestart(s))
  BY <1>2, <1>6 DEF LoseConnection, SegmentRestart
<1> QED BY <1>1, <1>3, <1>4, <1>5, <1>6 DEF Next, Backend

(* Backends, QEs, the checkpointer and failures of segments leave the       *)
(* recovery process where it is.                                            *)
LEMMA RecoveryUntouched ==
    ASSUME TypeOK, Next, ~ RecoveryProcess, ~ CoordinatorCrash, ~ CoordinatorStartup
    PROVE  UNCHANGED <<dtmStarted, up, recPc, shmCommitted, recGxid>>
<1>1. ASSUME NEW g \in Gxid, User(g) PROVE UNCHANGED <<dtmStarted, up, recPc, shmCommitted, recGxid>>
  BY <1>1 DEF User, currentDtxActivate, addToGxactDtxSegments,
              doNotifyingOnePhaseCommit, doPrepareTransaction, dtrVars, logVars, recVars
<1>2. ASSUME NEW g \in Gxid, QdCommits(g)
      PROVE  UNCHANGED <<dtmStarted, up, recPc, shmCommitted, recGxid>>
  <2>1. CASE RecordCommit(g)
    BY <2>1 DEF RecordCommit, SetDelayChkpt, insertingDistributedCommitted,
                insertedDistributedCommitted, FlushCommitRecord, dtrVars, recVars
  <2>2. CASE doInsertForgetCommitted(g)
    BY <2>2 DEF doInsertForgetCommitted, RecordDistributedForgetCommitted, ClearIncludeInCkpt,
                dtrVars, recVars
  <2>3. CASE ~ RecordCommit(g) /\ ~ doInsertForgetCommitted(g)
    BY <1>2, <2>3 DEF QdCommits, EndOnePhase, PrepareSucceeded, doNotifyingCommitPrepared,
                      RetryCommitPrepared, EndTwoPhase, dtrVars, logVars, recVars
  <2> QED BY <2>1, <2>2, <2>3
<1>3. ASSUME NEW g \in Gxid, QdAborts(g) \/ QdExit(g)
      PROVE  UNCHANGED <<dtmStarted, up, recPc, shmCommitted, recGxid>>
  BY <1>3 DEF QdAborts, QdExit, RollbackOmitted, doNotifyingAbort, retryAbortPrepared, EndAbort,
              dtrVars, logVars, recVars
<1>4. ASSUME NEW g \in Gxid, NEW s \in Segment, QeRuns(g, s)
      PROVE  UNCHANGED <<dtmStarted, up, recPc, shmCommitted, recGxid>>
  <2>1. ASSUME NEW m \in msgs, performDtxProtocolCommand(m)
        PROVE  UNCHANGED <<dtmStarted, up, recPc, shmCommitted, recGxid>>
    <3>1. PICK ok \in BOOLEAN, context \in QEContext : Reply(m, ok, context)
      BY <2>1, PerformFacts
    <3> QED BY <3>1 DEF Reply, logVars, recVars
  <2>2. CASE QeExit(g, s) \/ (\E m \in msgs : AbandonCommand(m))
    BY <2>2 DEF AbandonCommand, QeExit, dtrVars, logVars, recVars
  <2> QED BY <1>4, <2>1, <2>2 DEF QeRuns
<1>5. CASE BackgroundLog
  BY <1>5 DEF BackgroundLog, XLogBackgroundFlush, CkptSetRedo, CkptGetDelaying, CkptWaited,
              getDtxCheckPointInfo, CkptWrite, recVars, dtrVars
<1>6. CASE GatherFailed \/ (\E m \in msgs : LoseConnection(m)) \/ (\E s \in Segment : SegmentRestart(s))
  BY <1>6 DEF GatherFailed, LoseConnection, SegmentRestart, logVars, recVars
<1> QED BY <1>1, <1>2, <1>3, <1>4, <1>5, <1>6 DEF Next

(* Sessions start after the committed transactions are recovered.           *)
LEMMA RecoveryOrderStep == TypeOK /\ LogInv /\ RecoveryOrder /\ [Next]_vars => RecoveryOrder'
<1> SUFFICES ASSUME TypeOK, LogInv, RecoveryOrder, [Next]_vars PROVE RecoveryOrder'
  OBVIOUS
<1>1. ASSUME UNCHANGED <<dtmStarted, up, recPc, shmCommitted, recGxid>> PROVE RecoveryOrder'
  BY <1>1 DEF RecoveryOrder
<1>2. ASSUME Next, ~ RecoveryProcess, ~ CoordinatorCrash, ~ CoordinatorStartup PROVE RecoveryOrder'
  BY <1>1, <1>2, RecoveryUntouched
<1>3. CASE UNCHANGED vars
  BY <1>1, <1>3 DEF vars, logVars, recVars, dtrVars
<1>4. CASE CoordinatorCrash
  BY <1>4 DEF CoordinatorCrash, RecoveryOrder, Crash
<1>5. CASE CoordinatorStartup
  BY <1>5 DEF CoordinatorStartup, RecoveryOrder, StartupXLOG
<1>6. CASE RecoveryProcess
  <2>1. ASSUME NEW g \in Gxid, doNotifyCommittedInDoubt(g) \/ doAbortInDoubt(g) PROVE RecoveryOrder'
    BY <2>1 DEF doNotifyCommittedInDoubt, doAbortInDoubt, RecDispatch, RecoveryOrder, logVars, recVars
  <2>2. ASSUME NEW g \in Gxid, RecoveredCommit(g) PROVE RecoveryOrder'
    BY <2>2 DEF RecoveredCommit, RecoveryForget, RecoveryOrder
  <2>3. ASSUME NEW g \in Gxid, SkipInProgress(g) PROVE RecoveryOrder'
    BY <2>3 DEF SkipInProgress, RecoveryOrder, logVars, recVars
  <2>4. ASSUME NEW g \in Gxid, AbortedInDoubt(g) PROVE RecoveryOrder'
    BY <2>4 DEF AbortedInDoubt, RecoveryOrder, logVars, recVars
  <2>5. CASE RecoveryFatal
    BY <2>5 DEF RecoveryFatal, RecoveryRestart, RecoveryOrder
  <2>6. CASE CommittedRecovered
    BY <2>6 DEF CommittedRecovered, RecoveryClear, RecoveryOrder
  <2>7. ASSUME NEW s \in Segment, gatherRMInDoubtTransactions(s) PROVE RecoveryOrder'
    BY <2>7 DEF gatherRMInDoubtTransactions, RecoveryOrder, logVars, recVars
  <2>8. CASE RoundDone
    BY <2>8 DEF RoundDone, RecoveryOrder, logVars, recVars
  <2> QED BY <1>6, <2>1, <2>2, <2>3, <2>4, <2>5, <2>6, <2>7, <2>8 DEF RecoveryProcess
<1> QED BY <1>2, <1>3, <1>4, <1>5, <1>6

(* The DTM, once started, runs until the coordinator crashes.               *)
LEMMA DtmStays == ASSUME TypeOK, Next, ~ CoordinatorCrash, dtmStarted PROVE dtmStarted'
<1>1. CASE RecoveryProcess
  BY <1>1 DEF RecoveryProcess, RecoveredCommit, RecoveryFatal, CommittedRecovered,
              doNotifyCommittedInDoubt, doAbortInDoubt, SkipInProgress, AbortedInDoubt,
              gatherRMInDoubtTransactions, RoundDone
<1>2. CASE CoordinatorStartup
  BY <1>2 DEF CoordinatorStartup
<1> QED BY <1>1, <1>2, RecoveryUntouched

(* The array of running transactions and the backends agree.                *)
LEMMA RunningStep == TypeOK /\ LogInv /\ RecoveryOrder /\ Running /\ [Next]_vars => Running'
<1> SUFFICES ASSUME TypeOK, LogInv, RecoveryOrder, Running, [Next]_vars, NEW h \in Gxid
             PROVE  /\ h \in procArray' <=> dtxState'[h] # "NONE"
                    /\ h \in procArray' => dtmStarted' /\ h \in used' /\ told'[h] = "none"
                    /\ told'[h] # "none" => h \in used'
                    /\ h \notin used' => dtxSegments'[h] = {}
                    /\ wrote'[h] \subseteq dtxSegments'[h]
  BY DEF Running
<1>0. /\ h \in procArray <=> dtxState[h] # "NONE"
      /\ h \in procArray => dtmStarted /\ h \in used /\ told[h] = "none"
      /\ told[h] # "none" => h \in used
      /\ h \notin used => dtxSegments[h] = {}
      /\ wrote[h] \subseteq dtxSegments[h]
  BY DEF Running
<1>1. CASE UNCHANGED vars
  BY <1>0, <1>1 DEF vars, qdVars, dtrVars
<1>2. CASE CoordinatorCrash
  BY <1>0, <1>2 DEF CoordinatorCrash
<1>3. CASE Next /\ ~ Backend(h) /\ ~ CoordinatorCrash
  BY <1>0, <1>3, OtherState, DtmStays DEF SameState
<1>4. CASE Backend(h)
  <2> USE DEF TypeOK
  <2>1. CASE currentDtxActivate(h)
    BY <1>0, <2>1 DEF currentDtxActivate, SetState, dtrVars
  <2>2. ASSUME NEW s \in Segment, NEW writes \in BOOLEAN, addToGxactDtxSegments(h, s, writes)
        PROVE  /\ h \in procArray' <=> dtxState'[h] # "NONE"
               /\ h \in procArray' => dtmStarted' /\ h \in used' /\ told'[h] = "none"
               /\ told'[h] # "none" => h \in used'
               /\ h \notin used' => dtxSegments'[h] = {}
               /\ wrote'[h] \subseteq dtxSegments'[h]
    BY <1>0, <2>2 DEF addToGxactDtxSegments, dtrVars
  <2>3. CASE \E xid \in BOOLEAN : doNotifyingOnePhaseCommit(h, xid) \/ doPrepareTransaction(h, xid)
    BY <1>0, <2>3 DEF doNotifyingOnePhaseCommit, doPrepareTransaction, SetState, dtrVars
  <2>4. CASE QdCommits(h)
    BY <1>0, <2>4 DEF QdCommits, EndOnePhase, PrepareSucceeded, RecordCommit, doNotifyingCommitPrepared,
                      RetryCommitPrepared, doInsertForgetCommitted, EndTwoPhase, EndDtx, SetState, dtrVars
  <2>5. CASE QdAborts(h) \/ QdExit(h)
    BY <1>0, <2>5 DEF QdAborts, QdExit, RollbackOmitted, doNotifyingAbort, retryAbortPrepared, EndAbort,
                      Rollbackable, EndDtx, SetState, dtrVars
  <2> QED BY <1>4, <2>1, <2>2, <2>3, <2>4, <2>5 DEF Backend, User
<1> QED BY <1>1, <1>2, <1>3, <1>4

\* A step that leaves the log alone leaves what is recorded of each transaction.
LEMMA LogUnchanged ==
    ASSUME UNCHANGED logVars, NEW h \in Gxid
    PROVE  /\ h \in delayChkpt' <=> h \in delayChkpt
           /\ h \in includeInCkpt' <=> h \in includeInCkpt
           /\ HasCommit(h)' <=> HasCommit(h)
           /\ HasForget(h)' <=> HasForget(h)
           /\ Durable(h)' <=> Durable(h)
BY DEF logVars, walVars, memVars, HasCommit, HasForget, Durable

(* A backend's steps but for the ones that write the log.                   *)
LEMMA BackendLog ==
    ASSUME NEW h \in Gxid, Backend(h), ~ RecordCommit(h), ~ doInsertForgetCommitted(h)
    PROVE  UNCHANGED logVars
BY DEF Backend, User, QdCommits, QdAborts, QdExit,
       currentDtxActivate, addToGxactDtxSegments, doNotifyingOnePhaseCommit, doPrepareTransaction,
       EndOnePhase, PrepareSucceeded, doNotifyingCommitPrepared, RetryCommitPrepared, EndTwoPhase,
       RollbackOmitted, doNotifyingAbort, retryAbortPrepared, EndAbort

(* The commit critical section of a backend: what each of its steps leaves. *)
LEMMA RecordCommitFacts ==
    ASSUME TypeOK, TypeOK', LogInv, NEW h \in Gxid, RecordCommit(h)
    PROVE  /\ UNCHANGED <<used, procArray, dtxSegments, wrote, pending, failed, told, onePhase,
                          segVars, dtrVars>>
           /\ h \in delayChkpt => h \in delayChkpt' \/ dtxState'[h] = "INSERTED_COMMITTED"
           /\ HasForget(h)' <=> HasForget(h)
           /\ Durable(h) => Durable(h)'
           /\ \/ /\ dtxState[h] = "PREPARED" /\ dtxState'[h] = "PREPARED"
                 /\ HasCommit(h)' <=> HasCommit(h)
                 /\ h \in delayChkpt' /\ includeInCkpt' = includeInCkpt
              \/ /\ dtxState[h] = "PREPARED" /\ dtxState'[h] = "INSERTING_COMMITTED"
                 /\ HasCommit(h)'
                 /\ h \in delayChkpt' /\ includeInCkpt' = includeInCkpt
              \/ /\ dtxState[h] = "INSERTING_COMMITTED" /\ dtxState'[h] = "INSERTED_COMMITTED"
                 /\ HasCommit(h) /\ HasCommit(h)'
                 /\ h \in delayChkpt'
              \/ /\ dtxState[h] = "INSERTED_COMMITTED" /\ dtxState'[h] = "INSERTED_COMMITTED"
                 /\ HasCommit(h)' <=> HasCommit(h)
                 /\ h \notin delayChkpt' /\ includeInCkpt' = includeInCkpt /\ Durable(h)'
<1>0. LogTypeOK /\ LsnOrder /\ LogTypeOK'
  BY DEF LogInv, TypeOK
<1>1. CASE dtxState[h] = "PREPARED" /\ SetDelayChkpt(h) /\ UNCHANGED dtxState
  <2>1. wal' = wal /\ flushLsn <= flushLsn' /\ h \in delayChkpt' /\ includeInCkpt' = includeInCkpt
    BY <1>0, <1>1 DEF SetDelayChkpt, walVars, LogTypeOK
  <2> QED BY <1>0, <1>1, <2>1, LogAfterFlush DEF RecordCommit
<1>2. CASE /\ dtxState[h] = "PREPARED" /\ insertingDistributedCommitted(h)
           /\ SetState(h, "INSERTING_COMMITTED")
  <2>1. /\ XLogInsert("commit", h) /\ flushLsn' = flushLsn /\ h \in delayChkpt
        /\ UNCHANGED <<delayChkpt, includeInCkpt>>
    BY <1>2 DEF insertingDistributedCommitted, memVars
  <2>2. dtxState'[h] = "INSERTING_COMMITTED"
    BY <1>2 DEF SetState, TypeOK
  <2> QED BY <1>0, <1>2, <2>1, <2>2, LogAfterInsert DEF RecordCommit
<1>3. CASE /\ dtxState[h] = "INSERTING_COMMITTED" /\ insertedDistributedCommitted(h)
           /\ SetState(h, "INSERTED_COMMITTED")
  <2>1. wal' = wal /\ flushLsn <= flushLsn' /\ h \in delayChkpt' /\ HasCommit(h)
    BY <1>0, <1>3 DEF insertedDistributedCommitted, walVars, LogTypeOK
  <2>2. dtxState'[h] = "INSERTED_COMMITTED"
    BY <1>3 DEF SetState, TypeOK
  <2> QED BY <1>0, <1>3, <2>1, <2>2, LogAfterFlush DEF RecordCommit
<1>4. CASE dtxState[h] = "INSERTED_COMMITTED" /\ FlushCommitRecord(h) /\ UNCHANGED dtxState
  <2>1. wal' = wal /\ flushLsn <= flushLsn' /\ h \notin delayChkpt' /\ includeInCkpt' = includeInCkpt
    BY <1>0, <1>4 DEF FlushCommitRecord, LogTypeOK, Record
  <2>2. Durable(h)'
    BY <1>0, <1>4 DEF FlushCommitRecord, LogTypeOK, Record, Durable
  <2> QED BY <1>0, <1>4, <2>1, <2>2, LogAfterFlush DEF RecordCommit
<1> QED BY <1>1, <1>2, <1>3, <1>4 DEF RecordCommit

(* doInsertForgetCommitted() in its two steps.                              *)
LEMMA ForgetFacts ==
    ASSUME TypeOK, TypeOK', LogInv, NEW h \in Gxid, doInsertForgetCommitted(h)
    PROVE  /\ UNCHANGED <<used, procArray, dtxSegments, wrote, pending, failed, told, onePhase,
                          segVars, dtrVars, delayChkpt>>
           /\ HasCommit(h)' <=> HasCommit(h)
           /\ Durable(h) => Durable(h)'
           /\ \/ /\ dtxState[h] \in {"NOTIFYING_COMMIT_PREPARED", "RETRY_COMMIT_PREPARED"}
                 /\ Succeeded(h)
                 /\ dtxState'[h] = "INSERTING_FORGET_COMMITTED"
                 /\ includeInCkpt' = includeInCkpt /\ h \notin delayChkpt /\ HasForget(h)'
              \/ /\ dtxState[h] = "INSERTING_FORGET_COMMITTED"
                 /\ dtxState'[h] = "INSERTED_FORGET_COMMITTED"
                 /\ h \notin includeInCkpt' /\ HasForget(h)' /\ HasForget(h)
<1>0. LogTypeOK /\ LsnOrder /\ LogTypeOK'
  BY DEF LogInv, TypeOK
<1>1. CASE /\ dtxState[h] \in {"NOTIFYING_COMMIT_PREPARED", "RETRY_COMMIT_PREPARED"}
           /\ Succeeded(h)
           /\ RecordDistributedForgetCommitted(h)
           /\ SetState(h, "INSERTING_FORGET_COMMITTED")
  <2>1. /\ XLogInsert("forget", h) /\ flushLsn' = flushLsn /\ h \notin delayChkpt
        /\ UNCHANGED <<delayChkpt, includeInCkpt>>
    BY <1>1 DEF RecordDistributedForgetCommitted, memVars
  <2>2. dtxState'[h] = "INSERTING_FORGET_COMMITTED"
    BY <1>1 DEF SetState, TypeOK
  <2> QED BY <1>0, <1>1, <2>1, <2>2, LogAfterInsert DEF doInsertForgetCommitted
<1>2. CASE /\ dtxState[h] = "INSERTING_FORGET_COMMITTED"
           /\ ClearIncludeInCkpt(h)
           /\ SetState(h, "INSERTED_FORGET_COMMITTED")
  <2>1. /\ wal' = wal /\ flushLsn <= flushLsn' /\ delayChkpt' = delayChkpt /\ h \notin includeInCkpt'
        /\ HasForget(h)
    BY <1>0, <1>2 DEF ClearIncludeInCkpt, walVars, LogTypeOK
  <2>2. dtxState'[h] = "INSERTED_FORGET_COMMITTED"
    BY <1>2 DEF SetState, TypeOK
  <2> QED BY <1>0, <1>2, <2>1, <2>2, LogAfterFlush DEF doInsertForgetCommitted
<1> QED BY <1>1, <1>2 DEF doInsertForgetCommitted

(* The state machine of a backend, but for the steps that write the log.    *)
LEMMA BackendMoves ==
    ASSUME TypeOK, Running, NEW h \in Gxid, Backend(h), ~ RecordCommit(h), ~ doInsertForgetCommitted(h)
    PROVE  /\ h \in used => h \in used'
           /\ \/ dtxState[h] = "NONE" /\ h \notin used /\ dtxState'[h] = "ACTIVE_DISTRIBUTED"
              \/ /\ dtxState[h] \in Uncommitted /\ dtxState'[h] \in Uncommitted \cup {"NONE"}
                 /\ dtxState[h] = "PREPARED" => h \notin delayChkpt
                 /\ dtxState'[h] = "ACTIVE_DISTRIBUTED" => dtxState[h] = "ACTIVE_DISTRIBUTED"
                 /\ dtxState[h] \in Aborting => dtxState'[h] \in Aborting \cup {"NONE"}
              \/ /\ dtxState[h] = "INSERTED_COMMITTED" /\ h \notin delayChkpt
                 /\ dtxState'[h] = "NOTIFYING_COMMIT_PREPARED"
              \/ /\ dtxState[h] \in {"NOTIFYING_COMMIT_PREPARED", "RETRY_COMMIT_PREPARED"}
                 /\ dtxState'[h] = "RETRY_COMMIT_PREPARED"
              \/ dtxState[h] = "INSERTED_FORGET_COMMITTED" /\ dtxState'[h] = "NONE"
<1> USE DEF TypeOK, Uncommitted, Committing, Aborting, DtxState, SetState, EndDtx
<1>0. h \notin used => dtxState[h] = "NONE"
  BY DEF Running
<1>1. CASE User(h)
  BY <1>0, <1>1 DEF User, currentDtxActivate, addToGxactDtxSegments, doNotifyingOnePhaseCommit,
                    doPrepareTransaction
<1>2. CASE QdCommits(h)
  BY <1>2 DEF QdCommits, EndOnePhase, PrepareSucceeded, doNotifyingCommitPrepared,
              RetryCommitPrepared, EndTwoPhase
<1>3. CASE QdAborts(h) \/ QdExit(h)
  BY <1>3 DEF QdAborts, QdExit, RollbackOmitted, doNotifyingAbort, retryAbortPrepared, EndAbort,
              Rollbackable
<1> QED BY <1>1, <1>2, <1>3 DEF Backend

(* A backend's state and the log agree.                                     *)
LEMMA StateLoggedStep ==
    TypeOK /\ LogInv /\ Running /\ StateLogged /\ [Next]_vars => StateLogged'
<1> SUFFICES ASSUME TypeOK, LogInv, Running, StateLogged, [Next]_vars PROVE StateLogged'
  OBVIOUS
<1> DEFINE SL(h) ==
        /\ dtxState[h] # "NONE" => (HasCommit(h) <=> dtxState[h] \in Committing)
        /\ h \in delayChkpt => dtxState[h] \in {"PREPARED", "INSERTING_COMMITTED", "INSERTED_COMMITTED"}
        /\ h \in includeInCkpt => dtxState[h] \in Committing \ {"INSERTED_FORGET_COMMITTED"}
        /\ dtxState[h] \in Committing \ {"INSERTING_COMMITTED"} /\ h \notin delayChkpt => Durable(h)
        /\ dtxState[h] = "INSERTING_COMMITTED" => h \in delayChkpt
        /\ dtxState[h] \in Forgetting => HasForget(h)
        /\ HasForget(h) => Durable(h)
        /\ HasCommit(h) => h \in used
<1>0. TypeOK' /\ LogTypeOK /\ LsnOrder /\ MemoryLogged
  BY TypeStep DEF LogInv
<1> SUFFICES ASSUME NEW h \in Gxid PROVE SL(h)'
  BY DEF StateLogged
<1>1. SL(h)
  BY DEF StateLogged
<1>2. CASE UNCHANGED vars
  <2>1. UNCHANGED logVars /\ dtxState' = dtxState /\ used' = used
    BY <1>2 DEF vars, qdVars
  <2> QED BY <1>1, <2>1, LogUnchanged
<1>3. CASE CoordinatorCrash
  <2>1. /\ dtxState'[h] = "NONE" /\ used' = used /\ delayChkpt' = {} /\ includeInCkpt' = {}
        /\ Crash
    BY <1>3 DEF CoordinatorCrash, Crash
  <2> QED BY <1>0, <1>1, <2>1, LogAfterCrash DEF Committing, Forgetting
<1>4. CASE Next /\ ~ Backend(h) /\ ~ CoordinatorCrash
  <2>1. RecoveredCommit(h) => Durable(h)
    BY <1>0 DEF RecoveredCommit, RecoveryForget, MemoryLogged
  <2> QED BY <1>1, <1>4, <2>1, OtherState, OtherLog DEF SameState, SameLog
<1>5. CASE RecordCommit(h)
  <2>1. h \in used /\ used' = used
    BY <1>0, <1>5, RecordCommitFacts DEF Running
  <2>2. h \in includeInCkpt' => h \in includeInCkpt \/ dtxState'[h] = "INSERTED_COMMITTED"
    BY <1>0, <1>5, RecordCommitFacts
  <2> HIDE DEF SL
  <2>3. CASE dtxState[h] = "PREPARED" /\ dtxState'[h] = "PREPARED"
    BY <1>0, <1>1, <1>5, <2>1, <2>2, <2>3, RecordCommitFacts DEF Committing, Forgetting, SL
  <2>4. CASE dtxState[h] = "PREPARED" /\ dtxState'[h] = "INSERTING_COMMITTED"
    BY <1>0, <1>1, <1>5, <2>1, <2>2, <2>4, RecordCommitFacts DEF Committing, Forgetting, SL
  <2>5. CASE dtxState'[h] = "INSERTED_COMMITTED"
    BY <1>0, <1>1, <1>5, <2>1, <2>2, <2>5, RecordCommitFacts DEF Committing, Forgetting, SL
  <2> QED BY <1>0, <1>5, <2>3, <2>4, <2>5, RecordCommitFacts
<1>6. CASE doInsertForgetCommitted(h)
  <2> HIDE DEF SL
  <2>1. h \in includeInCkpt' => h \in includeInCkpt
    BY <1>6 DEF doInsertForgetCommitted, RecordDistributedForgetCommitted, ClearIncludeInCkpt, memVars
  <2> QED BY <1>0, <1>1, <1>6, <2>1, ForgetFacts DEF Committing, Forgetting, SL
<1>7. CASE Backend(h) /\ ~ RecordCommit(h) /\ ~ doInsertForgetCommitted(h)
  <2>1. UNCHANGED logVars
    BY <1>7, BackendLog
  <2> HIDE DEF SL
  <2> QED BY <1>1, <1>7, <2>1, LogUnchanged, BackendMoves DEF Committing, Forgetting, Uncommitted, SL
<1> QED BY <1>2, <1>3, <1>4, <1>5, <1>6, <1>7

-----------------------------------------------------------------------------
(* How the part of transaction h on segment t may move.                     *)
LocalMove(h, t) ==
    \/ local'[h][t] = local[h][t]
    \/ /\ Backend(h) /\ dtxState[h] = "ACTIVE_DISTRIBUTED" /\ t \in dtxSegments'[h]
       /\ local'[h][t] = "active"
    \/ local[h][t] = "active" /\ local'[h][t] = "aborted"
    \/ \E m \in msgs \ msgs' :
          /\ m.gxid = h /\ m.seg = t
          /\ \/ m.cmd = "PREPARE" /\ local[h][t] = "active" /\ local'[h][t] = "prepared"
             \/ m.cmd = "COMMIT_ONEPHASE" /\ local[h][t] = "active" /\ local'[h][t] = "committed"
             \/ m.cmd \in CommitCmd /\ local[h][t] = "prepared" /\ local'[h][t] = "committed"
             \/ m.cmd \in RollbackCmd /\ local[h][t] = "prepared" /\ local'[h][t] = "aborted"

\* The moves a step can make in a transaction's part on one segment (local).
LEMMA LocalMoves ==
    ASSUME TypeOK, [Next]_vars, NEW h \in Gxid, NEW t \in Segment PROVE LocalMove(h, t)
<1>1. ASSUME local' = local PROVE LocalMove(h, t)
  BY <1>1 DEF LocalMove
<1>2. ASSUME NEW g \in Gxid, Backend(g) PROVE LocalMove(h, t)
  <2>1. ASSUME NEW s \in Segment, NEW writes \in BOOLEAN, addToGxactDtxSegments(g, s, writes)
        PROVE  LocalMove(h, t)
    <3>1. /\ local' = [local EXCEPT ![g] = [local[g] EXCEPT ![s] = "active"]]
          /\ dtxSegments' = [dtxSegments EXCEPT ![g] = @ \cup {s}]
          /\ dtxState[g] = "ACTIVE_DISTRIBUTED"
      BY <2>1 DEF addToGxactDtxSegments
    <3> QED BY <1>2, <3>1 DEF TypeOK, LocalMove
  <2>2. CASE ~ \E s \in Segment, writes \in BOOLEAN : addToGxactDtxSegments(g, s, writes)
    <3>1. local' = local
      BY <1>2, <2>2 DEF Backend, User, QdCommits, QdAborts, QdExit,
         currentDtxActivate, doNotifyingOnePhaseCommit, doPrepareTransaction,
         EndOnePhase, PrepareSucceeded, RecordCommit, doNotifyingCommitPrepared, RetryCommitPrepared,
         doInsertForgetCommitted, EndTwoPhase,
         RollbackOmitted, doNotifyingAbort, retryAbortPrepared, EndAbort, segVars
    <3> QED BY <1>1, <3>1
  <2> QED BY <2>1, <2>2
<1>3. ASSUME NEW g \in Gxid, NEW s \in Segment, QeRuns(g, s) PROVE LocalMove(h, t)
  <2>1. ASSUME NEW m \in msgs, performDtxProtocolCommand(m) PROVE LocalMove(h, t)
    <3>1. PICK ok \in BOOLEAN, context \in QEContext, new \in LocalState :
              /\ Reply(m, ok, context)
              /\ QeMove(m, local[m.gxid][m.seg], new, ok)
              /\ local'[h][t] = IF h = m.gxid /\ t = m.seg THEN new ELSE local[h][t]
      BY <2>1, PerformFacts
    <3>2. m \notin msgs'
      BY <3>1 DEF Reply
    <3> QED BY <3>1, <3>2 DEF QeMove, LocalMove
  <2>2. ASSUME NEW m \in msgs, AbandonCommand(m) PROVE LocalMove(h, t)
    BY <1>1, <2>2 DEF AbandonCommand
  <2>3. CASE QeExit(g, s)
    <3>1. local' = [local EXCEPT ![g] = [local[g] EXCEPT ![s] = "aborted"]] /\ local[g][s] = "active"
      BY <2>3 DEF QeExit
    <3> QED BY <3>1 DEF TypeOK, LocalMove
  <2> QED BY <1>3, <2>1, <2>2, <2>3 DEF QeRuns
<1>4. CASE RecoveryProcess
  BY <1>1, <1>4 DEF RecoveryProcess, RecoveredCommit, RecoveryFatal, CommittedRecovered,
              doNotifyCommittedInDoubt, doAbortInDoubt, SkipInProgress, AbortedInDoubt,
              gatherRMInDoubtTransactions, RoundDone, segVars
<1>5. CASE BackgroundLog \/ GatherFailed \/ CoordinatorStartup \/ CoordinatorCrash
  BY <1>1, <1>5 DEF BackgroundLog, GatherFailed, CoordinatorStartup, CoordinatorCrash, segVars
<1>6. ASSUME NEW m \in msgs, LoseConnection(m) PROVE LocalMove(h, t)
  BY <1>1, <1>6 DEF LoseConnection
<1>7. ASSUME NEW s \in Segment, SegmentRestart(s) PROVE LocalMove(h, t)
  <2>1. local'[h] = [local[h] EXCEPT ![s] = IF @ = "active" THEN "aborted" ELSE @]
    BY <1>7 DEF SegmentRestart
  <2>2. local[h] \in [Segment -> LocalState]
    BY DEF TypeOK
  <2> QED BY <2>1, <2>2 DEF LocalMove
<1>8. CASE UNCHANGED vars
  BY <1>1, <1>8 DEF vars, segVars
<1> QED BY <1>2, <1>3, <1>4, <1>5, <1>6, <1>7, <1>8 DEF Next, Backend

(* A backend either sends the command that belongs to its new state to all  *)
(* its segments, a retry over a new gang and all else over the old one, or  *)
(* leaves the commands and answers alone.                                   *)
LEMMA BackendSends ==
    ASSUME TypeOK, NEW g \in Gxid, Backend(g)
    PROVE  /\ UNCHANGED dtrVars
           /\ \/ UNCHANGED <<msgs, pending, failed>>
              \/ \E cmd \in DtxProtocolCommand \ RecoveryCmd :
                    /\ IF cmd \in RetryCmd THEN DispatchNewGang(g, dtxSegments'[g], cmd)
                                          ELSE Dispatch(g, dtxSegments'[g], cmd)
                    /\ <<dtxState'[g], cmd>> \in Broadcast
<1> USE DEF TypeOK, SetState, EndDtx, segVars
<1>1. {"PREPARE", "COMMIT_ONEPHASE", "ABORT_NO_PREPARED", "ABORT_SOME_PREPARED", "COMMIT_PREPARED",
       "RETRY_COMMIT_PREPARED", "ABORT_PREPARED", "RETRY_ABORT_PREPARED"}
         \subseteq DtxProtocolCommand \ RecoveryCmd
  BY DEF DtxProtocolCommand, CommitCmd, AbortCmd, RecoveryCmd
<1>2. UNCHANGED dtrVars
  BY DEF Backend, User, QdCommits, QdAborts, QdExit,
         currentDtxActivate, addToGxactDtxSegments, doNotifyingOnePhaseCommit, doPrepareTransaction,
         EndOnePhase, PrepareSucceeded, RecordCommit, doNotifyingCommitPrepared, RetryCommitPrepared,
         doInsertForgetCommitted, EndTwoPhase,
         RollbackOmitted, doNotifyingAbort, retryAbortPrepared, EndAbort
<1>3. ASSUME NEW xid \in BOOLEAN, doNotifyingOnePhaseCommit(g, xid), dtxSegments[g] # {}
      PROVE  /\ Dispatch(g, dtxSegments'[g], "COMMIT_ONEPHASE")
             /\ <<dtxState'[g], "COMMIT_ONEPHASE">> \in Broadcast
  BY <1>3 DEF doNotifyingOnePhaseCommit, Broadcast
<1>4. ASSUME NEW xid \in BOOLEAN, doPrepareTransaction(g, xid)
      PROVE  Dispatch(g, dtxSegments'[g], "PREPARE") /\ <<dtxState'[g], "PREPARE">> \in Broadcast
  BY <1>4 DEF doPrepareTransaction, Broadcast
<1>5. ASSUME doNotifyingCommitPrepared(g)
      PROVE  /\ Dispatch(g, dtxSegments'[g], "COMMIT_PREPARED")
             /\ <<dtxState'[g], "COMMIT_PREPARED">> \in Broadcast
  BY <1>5 DEF doNotifyingCommitPrepared, Broadcast
<1>6. ASSUME RetryCommitPrepared(g)
      PROVE  /\ DispatchNewGang(g, dtxSegments'[g], "RETRY_COMMIT_PREPARED")
             /\ <<dtxState'[g], "RETRY_COMMIT_PREPARED">> \in Broadcast
  BY <1>6 DEF RetryCommitPrepared, Broadcast
<1>7. ASSUME doNotifyingAbort(g)
      PROVE  \E cmd \in {"ABORT_NO_PREPARED", "ABORT_SOME_PREPARED", "ABORT_PREPARED"} :
                Dispatch(g, dtxSegments'[g], cmd) /\ <<dtxState'[g], cmd>> \in Broadcast
  BY <1>7 DEF doNotifyingAbort, Broadcast
<1>8. ASSUME retryAbortPrepared(g)
      PROVE  /\ DispatchNewGang(g, dtxSegments'[g], "RETRY_ABORT_PREPARED")
             /\ <<dtxState'[g], "RETRY_ABORT_PREPARED">> \in Broadcast
  BY <1>8 DEF retryAbortPrepared, Broadcast
<1>9. \/ UNCHANGED <<msgs, pending, failed>>
      \/ \E xid \in BOOLEAN : doNotifyingOnePhaseCommit(g, xid) /\ dtxSegments[g] # {}
      \/ \E xid \in BOOLEAN : doPrepareTransaction(g, xid)
      \/ doNotifyingCommitPrepared(g) \/ RetryCommitPrepared(g) \/ doNotifyingAbort(g)
      \/ retryAbortPrepared(g)
  BY DEF Backend, User, QdCommits, QdAborts, QdExit,
         currentDtxActivate, addToGxactDtxSegments, doNotifyingOnePhaseCommit,
         EndOnePhase, PrepareSucceeded, RecordCommit,
         doInsertForgetCommitted, EndTwoPhase, RollbackOmitted, EndAbort
<1> HIDE DEF TypeOK, SetState, EndDtx, segVars
<1> QED BY <1>1, <1>2, <1>3, <1>4, <1>5, <1>6, <1>7, <1>8, <1>9 DEF RetryCmd

(* A backend that waits for answers does nothing else.                      *)
LEMMA BackendWaits ==
    ASSUME TypeOK, Running, NEW g \in Gxid, Backend(g), NEW cmd, <<dtxState[g], cmd>> \in Broadcast
    PROVE  pending[g] = {}
<1>0. dtxState[g] \in {"NOTIFYING_ONE_PHASE_COMMIT", "PREPARING", "NOTIFYING_COMMIT_PREPARED",
        "RETRY_COMMIT_PREPARED", "NOTIFYING_ABORT_NO_PREPARED", "NOTIFYING_ABORT_SOME_PREPARED",
        "NOTIFYING_ABORT_PREPARED", "RETRY_ABORT_PREPARED"}
  BY DEF Broadcast
<1>1. CASE User(g)
  BY <1>0, <1>1 DEF User, Running, currentDtxActivate, addToGxactDtxSegments, doNotifyingOnePhaseCommit,
                    doPrepareTransaction
<1>2. CASE QdCommits(g)
  BY <1>0, <1>2 DEF QdCommits, EndOnePhase, PrepareSucceeded, RecordCommit, doNotifyingCommitPrepared,
                    RetryCommitPrepared, doInsertForgetCommitted, EndTwoPhase, Succeeded, Failed, Answered
<1>3. CASE QdAborts(g) \/ QdExit(g)
  BY <1>3 DEF QdAborts, QdExit, RollbackOmitted, doNotifyingAbort, retryAbortPrepared, EndAbort,
              Rollbackable, Failed, Answered
<1> QED BY <1>1, <1>2, <1>3 DEF Backend

-----------------------------------------------------------------------------
(* Two messages with the same content are one.                              *)
LEMMA SameMessage ==
    ASSUME NEW m \in Message, NEW n \in Message,
           m.gxid = n.gxid, m.seg = n.seg, m.cmd = n.cmd, m.live = n.live
    PROVE  m = n
BY DEF Message

(* The sender of a live command is still in the state in which it was sent. *)
LEMMA LiveCommandsStep ==
    TypeOK /\ LogInv /\ RecoveryOrder /\ Running /\ LiveCommands /\ [Next]_vars => LiveCommands'
<1> SUFFICES ASSUME TypeOK, LogInv, RecoveryOrder, Running, LiveCommands, [Next]_vars,
                    NEW m \in msgs', m.live
             PROVE  IF m.cmd \in RecoveryCmd
                    THEN /\ recGxid' = {m.gxid}
                         /\ m.seg \in recPending'
                         /\ m.cmd = "RECOVERY_COMMIT_PREPARED" <=> recPc' = "commit"
                    ELSE /\ <<dtxState'[m.gxid], m.cmd>> \in Broadcast
                         /\ m.seg \in pending'[m.gxid]
  BY DEF LiveCommands
<1> DEFINE Fits == IF m.cmd \in RecoveryCmd
                   THEN /\ recGxid' = {m.gxid}
                        /\ m.seg \in recPending'
                        /\ m.cmd = "RECOVERY_COMMIT_PREPARED" <=> recPc' = "commit"
                   ELSE /\ <<dtxState'[m.gxid], m.cmd>> \in Broadcast
                        /\ m.seg \in pending'[m.gxid]
           h == m.gxid
<1>t. TypeOK' /\ h \in Gxid /\ m.seg \in Segment /\ m \in Message /\ m.live = TRUE
  BY TypeStep DEF TypeOK, Message
<1>0. ASSUME NEW n \in msgs, n.live
      PROVE  IF n.cmd \in RecoveryCmd
             THEN /\ recGxid = {n.gxid}
                  /\ n.seg \in recPending
                  /\ n.cmd = "RECOVERY_COMMIT_PREPARED" <=> recPc = "commit"
             ELSE <<dtxState[n.gxid], n.cmd>> \in Broadcast /\ n.seg \in pending[n.gxid]
  BY <1>0 DEF LiveCommands
<1>b. m \in msgs /\ m.cmd \notin RecoveryCmd => ~ Backend(h)
  BY <1>0, <1>t, BackendWaits
<1>1. ASSUME NEW g \in Gxid, Backend(g) PROVE Fits
  <2>1. UNCHANGED <<recGxid, recPending, recPc>>
    BY <1>1, BackendSends DEF dtrVars
  <2>2. Next /\ ~ CoordinatorCrash
    <3>1. ~ CoordinatorCrash
      BY <2>1 DEF CoordinatorCrash, Crash, RecoveryOrder
    <3> QED BY <1>1, <3>1 DEF Backend, Next
  <2>3. CASE m \in msgs /\ m.cmd \in RecoveryCmd
    BY <1>0, <1>t, <2>1, <2>3
  <2>4. CASE m \in msgs /\ m.cmd \notin RecoveryCmd
    <3>1. g # h /\ dtxState'[h] = dtxState[h]
      BY <1>1, <1>b, <1>t, <2>2, <2>4, OtherState DEF SameState
    <3>2. dtxSegments'[g] \in SUBSET Segment
      BY <1>t DEF TypeOK
    <3>3. pending'[h] = pending[h]
      BY <1>1, <1>t, <3>1, <3>2, BackendSends, DispatchFacts
    <3> QED BY <1>0, <1>t, <2>4, <3>1, <3>3
  <2>5. CASE m \notin msgs
    <3>1. dtxSegments'[g] \in SUBSET Segment
      BY <1>t DEF TypeOK
    <3>2. PICK cmd \in DtxProtocolCommand \ RecoveryCmd :
             /\ Dispatch(g, dtxSegments'[g], cmd) \/ DispatchNewGang(g, dtxSegments'[g], cmd)
             /\ <<dtxState'[g], cmd>> \in Broadcast
      BY <1>1, <2>5, BackendSends
    <3>3. m.gxid = g /\ m.cmd = cmd /\ m.seg \in pending'[g]
      BY <2>5, <3>1, <3>2, DispatchFacts
    <3> QED BY <3>2, <3>3
  <2> QED BY <2>3, <2>4, <2>5
<1>2. ASSUME NEW g \in Gxid, NEW s \in Segment, QeRuns(g, s) PROVE Fits
  <2>1. ASSUME NEW n \in msgs, performDtxProtocolCommand(n) PROVE Fits
    <3>1. PICK ok \in BOOLEAN, context \in QEContext : Reply(n, ok, context)
      BY <2>1, PerformFacts
    <3>2. UNCHANGED <<dtxState, recGxid, recPc>>
      BY <3>1 DEF Reply
    <3>3. m \in msgs /\ m # n
      BY <3>1, ReplyFacts
    <3>4. n \in Message /\ n.live \in BOOLEAN
      BY DEF TypeOK, Message
    <3>5. CASE m.cmd \in RecoveryCmd
      <4>1. n.live /\ n.cmd \in RecoveryCmd => n.seg # m.seg
        BY <1>0, <1>t, <3>3, <3>4, <3>5, SameMessage DEF RecoveryCmd
      <4> QED BY <1>0, <1>t, <3>1, <3>2, <3>3, <3>5, <4>1, ReplyFacts
    <3>6. CASE m.cmd \notin RecoveryCmd
      <4>1. n.live /\ n.cmd \notin RecoveryCmd /\ n.gxid = h => n.cmd = m.cmd
        BY <1>0, <1>t, <3>3, <3>6 DEF Broadcast
      <4>2. n.live /\ n.cmd \notin RecoveryCmd /\ n.gxid = h => n.seg # m.seg
        BY <1>t, <3>3, <3>4, <4>1, SameMessage
      <4> QED BY <1>0, <1>t, <3>1, <3>2, <3>3, <3>6, <4>2, ReplyFacts
    <3> QED BY <3>5, <3>6
  <2>2. CASE QeExit(g, s) \/ (\E n \in msgs : AbandonCommand(n))
    <3>1. m \in msgs /\ UNCHANGED <<dtxState, pending, recGxid, recPending, recPc>>
      BY <2>2 DEF QeExit, AbandonCommand, qdVars, dtrVars
    <3> QED BY <1>0, <3>1
  <2> QED BY <1>2, <2>1, <2>2 DEF QeRuns
<1>3. CASE RecoveryProcess
  <2>0. UNCHANGED <<dtxState, pending>>
    BY <1>3 DEF RecoveryProcess, RecoveredCommit, RecoveryFatal, CommittedRecovered,
              doNotifyCommittedInDoubt, doAbortInDoubt, SkipInProgress, AbortedInDoubt,
              gatherRMInDoubtTransactions, RoundDone, qdVars
  <2>1. ASSUME NEW g \in Gxid, doNotifyCommittedInDoubt(g) \/ doAbortInDoubt(g) PROVE Fits
    <3>1. PICK cmd \in RecoveryCmd :
             /\ RecDispatch(g, cmd)
             /\ cmd = "RECOVERY_COMMIT_PREPARED" <=> recPc' = "commit"
      BY <2>1 DEF doNotifyCommittedInDoubt, doAbortInDoubt, RecoveryCmd
    <3>2. recGxid = {}
      BY <2>1 DEF doNotifyCommittedInDoubt, doAbortInDoubt
    <3>3. m \in msgs \/ m \in Commands(g, Segment, cmd)
      BY <3>1 DEF RecDispatch
    <3>4. CASE m \in Commands(g, Segment, cmd)
      BY <3>1, <3>4 DEF Commands, RecDispatch
    <3>5. CASE m \in msgs
      BY <1>0, <2>0, <3>2, <3>5
    <3> QED BY <3>3, <3>4, <3>5
  <2>2. ASSUME NEW g \in Gxid, RecoveredCommit(g) \/ AbortedInDoubt(g) PROVE Fits
    BY <1>0, <2>0, <2>2 DEF RecoveredCommit, AbortedInDoubt, segVars
  <2>3. ASSUME NEW g \in Gxid, SkipInProgress(g) PROVE Fits
    BY <1>0, <2>0, <2>3 DEF SkipInProgress, segVars
  <2>4. CASE RecoveryFatal \/ CommittedRecovered \/ RoundDone
    BY <1>0, <2>0, <2>4 DEF RecoveryFatal, CommittedRecovered, RoundDone, segVars
  <2>5. ASSUME NEW s \in Segment, gatherRMInDoubtTransactions(s) PROVE Fits
    BY <1>0, <2>0, <2>5 DEF gatherRMInDoubtTransactions, RecoveryOrder, segVars
  <2> QED BY <1>3, <2>1, <2>2, <2>3, <2>4, <2>5 DEF RecoveryProcess
<1>4. CASE BackgroundLog \/ UNCHANGED vars
  BY <1>0, <1>4 DEF BackgroundLog, vars, qdVars, segVars, dtrVars
<1>5. CASE GatherFailed \/ CoordinatorStartup
  BY <1>0, <1>5 DEF GatherFailed, CoordinatorStartup, StartupXLOG, RecoveryOrder, qdVars, segVars
<1>6. ASSUME NEW n \in msgs, LoseConnection(n) PROVE Fits
  <2>1. m \in msgs /\ m # n
    <3>1. m \in msgs \ {n} \/ m = [n EXCEPT !.live = FALSE]
      BY <1>6 DEF LoseConnection
    <3>2. n \in Message
      BY DEF TypeOK
    <3>3. CASE m = [n EXCEPT !.live = FALSE]
      BY <1>t, <3>2, <3>3 DEF Message
    <3> QED BY <3>1, <3>3
  <2>2. n \in Message /\ n.live = TRUE /\ n.gxid \in Gxid
    BY <1>6 DEF LoseConnection, TypeOK, Message
  <2>3. UNCHANGED <<dtxState, recGxid, recPc>>
    BY <1>6 DEF LoseConnection
  <2>4. CASE m.cmd \in RecoveryCmd
    <3>1. n.cmd \in RecoveryCmd => n.seg # m.seg
      BY <1>0, <1>t, <2>1, <2>2, <2>4, SameMessage DEF RecoveryCmd
    <3> QED BY <1>0, <1>t, <1>6, <2>1, <2>3, <2>4, <3>1 DEF LoseConnection
  <2>5. CASE m.cmd \notin RecoveryCmd
    <3>1. n.cmd \notin RecoveryCmd /\ n.gxid = h => n.cmd = m.cmd
      BY <1>0, <1>t, <2>1, <2>2, <2>5 DEF Broadcast
    <3>2. n.cmd \notin RecoveryCmd /\ n.gxid = h => n.seg # m.seg
      BY <1>t, <2>1, <2>2, <3>1, SameMessage
    <3>3. <<dtxState[h], m.cmd>> \in Broadcast /\ m.seg \in pending[h]
      BY <1>0, <2>1, <2>5
    <3>4. \/ pending' = pending
          \/ n.cmd \notin RecoveryCmd /\ pending' = [pending EXCEPT ![n.gxid] = @ \ {n.seg}]
      BY <1>6 DEF LoseConnection
    <3>5. m.seg \in pending'[h]
      <4>1. pending \in [Gxid -> SUBSET Segment]
        BY DEF TypeOK
      <4>2. CASE pending' = pending
        BY <3>3, <4>2
      <4>3. CASE n.cmd \notin RecoveryCmd /\ pending' = [pending EXCEPT ![n.gxid] = @ \ {n.seg}]
        <5>1. CASE n.gxid = h
          BY <1>t, <3>2, <3>3, <4>1, <4>3, <5>1
        <5>2. CASE n.gxid # h
          BY <1>t, <2>2, <3>3, <4>1, <4>3, <5>2
        <5> QED BY <5>1, <5>2
      <4> QED BY <3>4, <4>2, <4>3
    <3> QED BY <2>3, <2>5, <3>3, <3>5
  <2> QED BY <2>4, <2>5
<1>7. ASSUME NEW s \in Segment, SegmentRestart(s) PROVE Fits
  <2>1. m \in msgs /\ m.seg # s /\ UNCHANGED <<dtxState, recGxid, recPc>>
    BY <1>7 DEF SegmentRestart
  <2>2. pending'[h] = pending[h] \ {s} /\ recPending \ {s} \subseteq recPending'
    BY <1>7, <1>t DEF SegmentRestart
  <2> QED BY <1>0, <1>t, <2>1, <2>2
<1>8. CASE CoordinatorCrash
  <2>1. PICK n \in msgs : m = [n EXCEPT !.live = FALSE]
    BY <1>8 DEF CoordinatorCrash
  <2> QED BY <1>t, <2>1 DEF TypeOK, Message
<1> QED BY <1>1, <1>2, <1>3, <1>4, <1>5, <1>6, <1>7, <1>8 DEF Next, Backend

(* Every segment a backend waits for holds the command.                     *)
LEMMA PendingSentStep ==
    TypeOK /\ LogInv /\ PendingSent /\ [Next]_vars => PendingSent'
<1> SUFFICES ASSUME TypeOK, LogInv, PendingSent, [Next]_vars,
                    NEW h \in Gxid, NEW t \in pending'[h]
             PROVE  \E m \in msgs' : m.gxid = h /\ m.seg = t /\ m.live /\ m.cmd \notin RecoveryCmd
  BY DEF PendingSent
<1> DEFINE Sent(M) == \E m \in M : m.gxid = h /\ m.seg = t /\ m.live /\ m.cmd \notin RecoveryCmd
<1>t. TypeOK' /\ t \in Segment
  BY TypeStep DEF TypeOK
<1>0. t \in pending[h] => Sent(msgs)
  BY DEF PendingSent
<1>1. ASSUME t \in pending[h], msgs \subseteq msgs' PROVE Sent(msgs')
  BY <1>0, <1>1
<1>2. ASSUME NEW g \in Gxid, Backend(g) PROVE Sent(msgs')
  <2>1. CASE UNCHANGED <<msgs, pending>>
    BY <1>1, <2>1
  <2>2. ASSUME NEW cmd \in DtxProtocolCommand \ RecoveryCmd,
               Dispatch(g, dtxSegments'[g], cmd) \/ DispatchNewGang(g, dtxSegments'[g], cmd)
        PROVE  Sent(msgs')
    <3>1. dtxSegments'[g] \in SUBSET Segment /\ cmd \in DtxProtocolCommand
      BY <1>t DEF TypeOK
    <3>2. msgs \subseteq msgs'
      BY <2>2, <3>1, DispatchFacts
    <3>3. CASE h = g
      <4>1. t \in pending'[g]
        BY <3>3
      <4> DEFINE n == [gxid |-> g, seg |-> t, cmd |-> cmd, live |-> TRUE]
      <4>2. n \in msgs'
        <5>1. pending \in [Gxid -> SUBSET Segment]
          BY DEF TypeOK
        <5> QED BY <2>2, <4>1, <5>1 DEF Dispatch, DispatchNewGang, Commands
      <4>3. n.gxid = g /\ n.seg = t /\ n.live /\ n.cmd \notin RecoveryCmd
        OBVIOUS
      <4> HIDE DEF n
      <4> QED BY <3>3, <4>2, <4>3
    <3>4. CASE h # g
      <4>1. pending \in [Gxid -> SUBSET Segment]
        BY DEF TypeOK
      <4>2. pending'[h] = pending[h]
        BY <2>2, <3>4, <4>1 DEF Dispatch, DispatchNewGang
      <4> QED BY <1>1, <3>2, <4>2
    <3> QED BY <3>3, <3>4
  <2> QED BY <1>2, <2>1, <2>2, BackendSends
<1>3. ASSUME NEW g \in Gxid, NEW s \in Segment, QeRuns(g, s) PROVE Sent(msgs')
  <2>1. ASSUME NEW n \in msgs, performDtxProtocolCommand(n) PROVE Sent(msgs')
    <3>1. PICK ok \in BOOLEAN, context \in QEContext : Reply(n, ok, context)
      BY <2>1, PerformFacts
    <3>2. /\ msgs' = msgs \ {n}
          /\ pending'[h] = IF n.live /\ n.cmd \notin RecoveryCmd /\ h = n.gxid
                           THEN pending[h] \ {n.seg} ELSE pending[h]
      BY <3>1, ReplyFacts
    <3> QED BY <1>0, <3>2
  <2>2. ASSUME NEW n \in msgs, AbandonCommand(n) PROVE Sent(msgs')
    BY <1>0, <2>2 DEF AbandonCommand, qdVars
  <2>3. CASE QeExit(g, s)
    BY <1>1, <2>3 DEF QeExit, qdVars
  <2> QED BY <1>3, <2>1, <2>2, <2>3 DEF QeRuns
<1>4. CASE RecoveryProcess
  <2>1. pending' = pending /\ msgs \subseteq msgs'
    BY <1>4 DEF RecoveryProcess, RecoveredCommit, RecoveryFatal, CommittedRecovered,
              doNotifyCommittedInDoubt, doAbortInDoubt, SkipInProgress, AbortedInDoubt, RecDispatch,
              gatherRMInDoubtTransactions, RoundDone, qdVars, segVars
  <2> QED BY <1>1, <2>1
<1>5. CASE BackgroundLog \/ GatherFailed \/ CoordinatorStartup \/ UNCHANGED vars
  <2>1. UNCHANGED <<pending, msgs>>
    BY <1>5 DEF BackgroundLog, GatherFailed, CoordinatorStartup, vars, qdVars, segVars
  <2> QED BY <1>1, <2>1
<1>6. ASSUME NEW n \in msgs, LoseConnection(n) PROVE Sent(msgs')
  <2>0. n.gxid \in Gxid /\ pending \in [Gxid -> SUBSET Segment]
    BY DEF TypeOK, Message
  <2>1. msgs \ {n} \subseteq msgs'
    BY <1>6 DEF LoseConnection
  <2>2. \/ n.cmd \in RecoveryCmd /\ pending' = pending
        \/ n.cmd \notin RecoveryCmd /\ pending' = [pending EXCEPT ![n.gxid] = @ \ {n.seg}]
    BY <1>6 DEF LoseConnection
  <2>3. t \in pending[h] /\ ~ (n.cmd \notin RecoveryCmd /\ n.gxid = h /\ n.seg = t)
    BY <2>0, <2>2
  <2> QED BY <1>0, <2>1, <2>3
<1>7. ASSUME NEW s \in Segment, SegmentRestart(s) PROVE Sent(msgs')
  <2>1. pending'[h] = pending[h] \ {s} /\ msgs' = {m \in msgs : m.seg # s}
    BY <1>7 DEF SegmentRestart
  <2> QED BY <1>0, <2>1
<1>8. CASE CoordinatorCrash
  BY <1>8 DEF CoordinatorCrash
<1> QED BY <1>2, <1>3, <1>4, <1>5, <1>6, <1>7, <1>8 DEF Next, Backend

(* A segment no longer waited for, though no failure was noted, has         *)
(* answered with success.                                                   *)
LEMMA AnswerMoves ==
    ASSUME TypeOK, LiveCommands, PendingSent, Next, NEW h \in Gxid, NEW t \in Segment,
           ~ Backend(h), ~ CoordinatorCrash, h \notin failed', t \notin pending'[h]
    PROVE  /\ h \notin failed
           /\ \/ t \notin pending[h]
              \/ \E m \in msgs : /\ m.gxid = h /\ m.seg = t
                                 /\ <<dtxState[h], m.cmd>> \in Broadcast
                                 /\ QeMove(m, local[h][t], local'[h][t], TRUE)
<1> DEFINE Goal == /\ h \notin failed
                   /\ \/ t \notin pending[h]
                      \/ \E m \in msgs : /\ m.gxid = h /\ m.seg = t
                                         /\ <<dtxState[h], m.cmd>> \in Broadcast
                                         /\ QeMove(m, local[h][t], local'[h][t], TRUE)
<1>1. ASSUME pending'[h] = pending[h], h \in failed => h \in failed' PROVE Goal
  BY <1>1
<1>2. ASSUME NEW g \in Gxid, Backend(g) PROVE Goal
  <2>1. CASE UNCHANGED <<msgs, pending, failed>>
    BY <1>1, <2>1
  <2>2. ASSUME NEW cmd \in DtxProtocolCommand \ RecoveryCmd,
               Dispatch(g, dtxSegments'[g], cmd) \/ DispatchNewGang(g, dtxSegments'[g], cmd)
        PROVE  Goal
    <3>0. g # h
      BY <1>2
    <3>1. pending \in [Gxid -> SUBSET Segment]
      BY DEF TypeOK
    <3>2. pending'[h] = pending[h] /\ (h \in failed => h \in failed')
      BY <2>2, <3>0, <3>1 DEF Dispatch, DispatchNewGang
    <3> QED BY <1>1, <3>2
  <2> QED BY <1>2, <2>1, <2>2, BackendSends
<1>3. ASSUME NEW g \in Gxid, NEW s \in Segment, QeRuns(g, s) PROVE Goal
  <2>1. ASSUME NEW n \in msgs, performDtxProtocolCommand(n) PROVE Goal
    <3>1. PICK ok \in BOOLEAN, context \in QEContext, new \in LocalState :
              /\ Reply(n, ok, context)
              /\ QeMove(n, local[n.gxid][n.seg], new, ok)
              /\ local'[h][t] = IF h = n.gxid /\ t = n.seg THEN new ELSE local[h][t]
      BY <2>1, PerformFacts
    <3>2. /\ failed \subseteq failed'
          /\ pending'[h] = IF n.live /\ n.cmd \notin RecoveryCmd /\ h = n.gxid
                           THEN pending[h] \ {n.seg} ELSE pending[h]
          /\ n.live /\ n.cmd \notin RecoveryCmd /\ ~ ok => n.gxid \in failed'
      BY <3>1, ReplyFacts
    <3>3. CASE n.live /\ n.cmd \notin RecoveryCmd /\ h = n.gxid /\ t = n.seg
      <4>1. ok = TRUE
        BY <3>2, <3>3
      <4>2. <<dtxState[h], n.cmd>> \in Broadcast
        BY <3>3 DEF LiveCommands
      <4> QED BY <3>1, <3>2, <3>3, <4>1, <4>2
    <3>4. CASE ~ (n.live /\ n.cmd \notin RecoveryCmd /\ h = n.gxid /\ t = n.seg)
      BY <3>2, <3>4
    <3> QED BY <3>3, <3>4
  <2>2. CASE QeExit(g, s) \/ (\E n \in msgs : AbandonCommand(n))
    BY <1>1, <2>2 DEF QeExit, AbandonCommand, qdVars
  <2> QED BY <1>3, <2>1, <2>2 DEF QeRuns
<1>4. CASE RecoveryProcess \/ BackgroundLog \/ GatherFailed \/ CoordinatorStartup
  <2>1. UNCHANGED <<pending, failed>>
    BY <1>4 DEF RecoveryProcess, RecoveredCommit, RecoveryFatal, CommittedRecovered,
              doNotifyCommittedInDoubt, doAbortInDoubt, SkipInProgress, AbortedInDoubt,
              gatherRMInDoubtTransactions, RoundDone, qdVars, BackgroundLog, GatherFailed,
              CoordinatorStartup
  <2> QED BY <1>1, <2>1
<1>5. ASSUME NEW n \in msgs, LoseConnection(n) PROVE Goal
  <2>0. n.gxid \in Gxid /\ pending \in [Gxid -> SUBSET Segment]
    BY DEF TypeOK, Message
  <2>1. \/ UNCHANGED <<pending, failed>>
        \/ /\ pending' = [pending EXCEPT ![n.gxid] = @ \ {n.seg}]
           /\ failed' = failed \cup {n.gxid}
    BY <1>5 DEF LoseConnection
  <2> QED BY <1>1, <2>0, <2>1
<1>6. ASSUME NEW s \in Segment, SegmentRestart(s) PROVE Goal
  <2> DEFINE hit == {m.gxid : m \in {n \in msgs : n.seg = s /\ n.live /\ n.cmd \notin RecoveryCmd}}
  <2>1. pending'[h] = pending[h] \ {s} /\ failed' = failed \cup hit
    BY <1>6 DEF SegmentRestart
  <2>2. s \in pending[h] => h \in hit
    BY DEF PendingSent
  <2> HIDE DEF hit
  <2> QED BY <2>1, <2>2
<1> QED BY <1>2, <1>3, <1>4, <1>5, <1>6 DEF Next, Backend

-----------------------------------------------------------------------------
(* A distributed transaction ends in one way: the invariant DtmInv is       *)
(* inductive, and Atomicity, AnswerHolds, NoAbortOfCommitted,               *)
(* InProgressUntilCommitted and ContextAccepted follow from it; and with    *)
(* the same invariant every step is a step or a stutter of AtomicCommit.    *)

(* The parts of the invariant shown above to be kept.                       *)
LEMMA CoreStep ==
    DtmInv /\ [Next]_vars =>
        /\ TypeOK' /\ LogInv' /\ RecoveryOrder' /\ Running' /\ StateLogged'
        /\ LiveCommands' /\ PendingSent'
BY LogStep, LogInvStep, TypeStep, RecoveryOrderStep, RunningStep, StateLoggedStep, LiveCommandsStep,
   PendingSentStep DEF DtmInv

(* A backend runs only when the DTM has been started.                       *)
LEMMA BackendRuns ==
    ASSUME TypeOK, Running, RecoveryOrder, NEW g \in Gxid, Backend(g)
    PROVE  dtmStarted /\ recPc # "commit" /\ recPc' = recPc
<1>1. dtmStarted
  <2>1. CASE dtxState[g] = "NONE"
    BY <2>1 DEF Backend, User, QdCommits, QdAborts, QdExit,
         currentDtxActivate, addToGxactDtxSegments, doNotifyingOnePhaseCommit, doPrepareTransaction,
         EndOnePhase, PrepareSucceeded, RecordCommit, doNotifyingCommitPrepared, RetryCommitPrepared,
         doInsertForgetCommitted, EndTwoPhase, Rollbackable,
         RollbackOmitted, doNotifyingAbort, retryAbortPrepared, EndAbort
  <2>2. CASE dtxState[g] # "NONE"
    BY <2>2 DEF Running
  <2> QED BY <2>1, <2>2
<1> QED BY <1>1, BackendSends DEF RecoveryOrder, dtrVars

(* While the recovery process notifies a committed transaction: a segment   *)
(* that has answered, no failure being noted, has run the command.          *)
LEMMA RecoveryAnswers ==
    ASSUME TypeOK, RecoveryOrder, LiveCommands, Next, NEW h \in Gxid, NEW t \in Segment,
           ~ CoordinatorCrash, recPc' = "commit", recGxid' = {h}, ~ recFailed', t \notin recPending'
    PROVE  /\ recPc = "commit" /\ recGxid = {h} /\ ~ recFailed
           /\ \/ t \notin recPending
              \/ \E m \in msgs : /\ m.gxid = h /\ m.seg = t /\ m.cmd = "RECOVERY_COMMIT_PREPARED"
                                 /\ QeMove(m, local[h][t], local'[h][t], TRUE)
<1> DEFINE Goal ==
        /\ recPc = "commit" /\ recGxid = {h} /\ ~ recFailed
        /\ \/ t \notin recPending
           \/ \E m \in msgs : /\ m.gxid = h /\ m.seg = t /\ m.cmd = "RECOVERY_COMMIT_PREPARED"
                              /\ QeMove(m, local[h][t], local'[h][t], TRUE)
<1>1. ASSUME UNCHANGED <<recPc, recGxid, recPending, recFailed>> PROVE Goal
  BY <1>1
<1>2. ASSUME NEW g \in Gxid, Backend(g) PROVE Goal
  BY <1>1, <1>2, BackendSends DEF dtrVars
<1>3. ASSUME NEW g \in Gxid, NEW s \in Segment, QeRuns(g, s) PROVE Goal
  <2>1. ASSUME NEW n \in msgs, performDtxProtocolCommand(n) PROVE Goal
    <3>1. PICK ok \in BOOLEAN, context \in QEContext, new \in LocalState :
              /\ Reply(n, ok, context)
              /\ QeMove(n, local[n.gxid][n.seg], new, ok)
              /\ local'[h][t] = IF h = n.gxid /\ t = n.seg THEN new ELSE local[h][t]
      BY <2>1, PerformFacts
    <3>2. /\ recPending' = IF n.live /\ n.cmd \in RecoveryCmd THEN recPending \ {n.seg} ELSE recPending
          /\ n.live /\ n.cmd \in RecoveryCmd /\ ~ ok => recFailed'
      BY <3>1, ReplyFacts
    <3>3. ~ recFailed
      BY <3>1, ReplyFacts
    <3>4. recPc = "commit" /\ recGxid = {h}
      BY <3>1 DEF Reply
    <3>5. CASE n.live /\ n.cmd \in RecoveryCmd /\ t = n.seg
      <4>1. ok = TRUE
        BY <3>2, <3>5
      <4>2. n.gxid = h /\ n.cmd = "RECOVERY_COMMIT_PREPARED"
        BY <3>4, <3>5 DEF LiveCommands
      <4> QED BY <3>1, <3>3, <3>4, <3>5, <4>1, <4>2
    <3>6. CASE ~ (n.live /\ n.cmd \in RecoveryCmd /\ t = n.seg)
      BY <3>2, <3>3, <3>4, <3>6
    <3> QED BY <3>5, <3>6
  <2>2. CASE QeExit(g, s) \/ (\E n \in msgs : AbandonCommand(n))
    BY <1>1, <2>2 DEF QeExit, AbandonCommand, dtrVars
  <2> QED BY <1>3, <2>1, <2>2 DEF QeRuns
<1>4. CASE RecoveryProcess
  <2>1. ASSUME NEW g \in Gxid, doNotifyCommittedInDoubt(g) \/ doAbortInDoubt(g) PROVE Goal
    BY <2>1 DEF doNotifyCommittedInDoubt, doAbortInDoubt, RecDispatch
  <2>2. ASSUME NEW g \in Gxid, RecoveredCommit(g) \/ AbortedInDoubt(g) \/ SkipInProgress(g) PROVE Goal
    BY <2>2 DEF RecoveredCommit, AbortedInDoubt, SkipInProgress
  <2>3. CASE RecoveryFatal \/ CommittedRecovered \/ RoundDone
    BY <2>3 DEF RecoveryFatal, CommittedRecovered, RoundDone
  <2>4. ASSUME NEW s \in Segment, gatherRMInDoubtTransactions(s) PROVE Goal
    BY <2>4 DEF gatherRMInDoubtTransactions
  <2> QED BY <1>4, <2>1, <2>2, <2>3, <2>4 DEF RecoveryProcess
<1>5. CASE BackgroundLog
  BY <1>1, <1>5 DEF BackgroundLog, dtrVars
<1>6. CASE GatherFailed \/ CoordinatorStartup
  BY <1>6 DEF GatherFailed, CoordinatorStartup, StartupXLOG, RecoveryOrder
<1>7. ASSUME NEW n \in msgs, LoseConnection(n) PROVE Goal
  BY <1>1, <1>7 DEF LoseConnection
<1>8. ASSUME NEW s \in Segment, SegmentRestart(s) PROVE Goal
  BY <1>8 DEF SegmentRestart
<1> QED BY <1>2, <1>3, <1>4, <1>5, <1>6, <1>7, <1>8 DEF Next, Backend

(* What is committed stays committed, and what is prepared for a decision   *)
(* that is not an abort is not rolled back.                                 *)
LEMMA Settled ==
    ASSUME DtmInv, [Next]_vars, NEW h \in Gxid, NEW t \in Segment, dtxState[h] # "ACTIVE_DISTRIBUTED"
    PROVE  /\ local[h][t] = "committed" => local'[h][t] = "committed"
           /\ local[h][t] = "prepared" /\ t \in dtxSegments[h]
                 /\ (HasCommit(h) \/ dtxState[h] \in {"PREPARING", "PREPARED"})
              => local'[h][t] \in {"prepared", "committed"}
           /\ local[h][t] = "prepared" /\ dtxState[h] = "PREPARING" => local'[h][t] = "prepared"
<1>1. LocalMove(h, t)
  BY LocalMoves DEF DtmInv
<1>2. \A m \in msgs : m.gxid = h =>
         /\ m.cmd \in CommitCmd => HasCommit(h)
         /\ m.cmd \in RollbackCmd => /\ dtxState[h] \in Aborting \cup {"NONE"}
                                     /\ HasCommit(h) => AllCommitted(h)
  BY DEF DtmInv, LateCommands, Durable, HasCommit
<1>3. dtxState[h] = "PREPARING" => ~ HasCommit(h)
  BY DEF DtmInv, StateLogged, Committing
<1> QED BY <1>1, <1>2, <1>3 DEF LocalMove, Aborting, AllCommitted

\* StatePrepared of one transaction.
Prepared(h) ==
    /\ dtxState[h] = "PREPARED" \/ HasCommit(h) =>
          \A s \in dtxSegments[h] : local[h][s] \in {"prepared", "committed"}
    /\ dtxState[h] = "PREPARING" /\ h \notin failed =>
          \A s \in dtxSegments[h] \ pending[h] : local[h][s] = "prepared"
    /\ dtxState[h] \in {"NOTIFYING_ONE_PHASE_COMMIT", "NOTIFYING_COMMIT_PREPARED",
                        "RETRY_COMMIT_PREPARED"} /\ h \notin failed =>
          \A s \in dtxSegments[h] \ pending[h] : local[h][s] = "committed"
    /\ dtxState[h] = "ONE_PHASE_COMMIT" => dtxSegments[h] = {}
    /\ HasForget(h) => AllCommitted(h)
    /\ recPc = "commit" /\ recGxid = {h} /\ ~ recFailed =>
          \A s \in dtxSegments[h] \ recPending : local[h][s] = "committed"
    /\ dtxState[h] = "ACTIVE_DISTRIBUTED" =>
          \A s \in Segment : local[h][s] \notin {"prepared", "committed"}

(* The steps that are not those of h's own backend.                         *)
LEMMA PreparedOther ==
    ASSUME DtmInv, Next, NEW h \in Gxid, ~ Backend(h), ~ CoordinatorCrash
    PROVE  Prepared(h)'
<1>t. /\ TypeOK /\ LogInv /\ RecoveryOrder /\ LiveCommands /\ PendingSent
      /\ [Next]_vars /\ dtxSegments[h] \subseteq Segment
  BY DEF DtmInv, TypeOK
<1>p. Prepared(h)
  BY DEF DtmInv, StatePrepared, Prepared
<1>s. SameState(h) /\ SameLog(h)
  BY <1>t, OtherState, OtherLog
<1>l. /\ dtxState[h] # "NONE" => (HasCommit(h) <=> dtxState[h] \in Committing)
      /\ HasForget(h) => HasCommit(h)
  BY DEF DtmInv, StateLogged, Durable, HasCommit
<1>1. ASSUME dtxState'[h] = "PREPARED" \/ HasCommit(h)', NEW t \in dtxSegments'[h]
      PROVE  local'[h][t] \in {"prepared", "committed"}
  <2>1. (dtxState[h] = "PREPARED" \/ HasCommit(h)) /\ t \in dtxSegments[h] /\ t \in Segment
    BY <1>1, <1>s, <1>t DEF SameState, SameLog
  <2>2. dtxState[h] # "ACTIVE_DISTRIBUTED"
    BY <1>l, <2>1 DEF Committing
  <2>3. local[h][t] \in {"prepared", "committed"}
    BY <1>p, <2>1 DEF Prepared
  <2> QED BY <1>t, <2>1, <2>2, <2>3, Settled
<1>2. ASSUME dtxState'[h] = "PREPARING", h \notin failed', NEW t \in dtxSegments'[h] \ pending'[h]
      PROVE  local'[h][t] = "prepared"
  <2>1. dtxState[h] = "PREPARING" /\ t \in dtxSegments[h] /\ t \in Segment
    BY <1>2, <1>s, <1>t DEF SameState
  <2>2. h \notin failed
    BY <1>2, <1>t, <2>1, AnswerMoves
  <2>3. CASE t \notin pending[h]
    <3>1. local[h][t] = "prepared"
      BY <1>p, <2>1, <2>2, <2>3 DEF Prepared
    <3> QED BY <1>t, <2>1, <3>1, Settled
  <2>4. CASE t \in pending[h]
    <3>1. PICK m \in msgs : /\ <<dtxState[h], m.cmd>> \in Broadcast
                            /\ QeMove(m, local[h][t], local'[h][t], TRUE)
      BY <1>2, <1>t, <2>1, <2>4, AnswerMoves
    <3>2. m.cmd = "PREPARE"
      BY <2>1, <3>1 DEF Broadcast
    <3> QED BY <3>1, <3>2 DEF QeMove, RollbackCmd, CommitCmd, AbortCmd
  <2> QED BY <2>3, <2>4
<1>3. ASSUME dtxState'[h] \in {"NOTIFYING_ONE_PHASE_COMMIT", "NOTIFYING_COMMIT_PREPARED",
                               "RETRY_COMMIT_PREPARED"},
             h \notin failed', NEW t \in dtxSegments'[h] \ pending'[h]
      PROVE  local'[h][t] = "committed"
  <2>1. /\ dtxState[h] \in {"NOTIFYING_ONE_PHASE_COMMIT", "NOTIFYING_COMMIT_PREPARED",
                            "RETRY_COMMIT_PREPARED"}
        /\ t \in dtxSegments[h] /\ t \in Segment
    BY <1>3, <1>s, <1>t DEF SameState
  <2>2. h \notin failed
    BY <1>3, <1>t, <2>1, AnswerMoves
  <2>3. CASE t \notin pending[h]
    <3>1. local[h][t] = "committed"
      BY <1>p, <2>1, <2>2, <2>3 DEF Prepared
    <3> QED BY <1>t, <2>1, <3>1, Settled
  <2>4. CASE t \in pending[h]
    <3>1. PICK m \in msgs : /\ <<dtxState[h], m.cmd>> \in Broadcast
                            /\ QeMove(m, local[h][t], local'[h][t], TRUE)
      BY <1>3, <1>t, <2>1, <2>4, AnswerMoves
    <3>2. CASE dtxState[h] = "NOTIFYING_ONE_PHASE_COMMIT"
      <4>1. m.cmd = "COMMIT_ONEPHASE"
        BY <3>1, <3>2 DEF Broadcast
      <4> QED BY <3>1, <4>1 DEF QeMove, RollbackCmd, CommitCmd, AbortCmd
    <3>3. CASE dtxState[h] \in {"NOTIFYING_COMMIT_PREPARED", "RETRY_COMMIT_PREPARED"}
      <4>1. m.cmd \in {"COMMIT_PREPARED", "RETRY_COMMIT_PREPARED"}
        BY <3>1, <3>3 DEF Broadcast
      <4>2. local[h][t] \in {"prepared", "committed"}
        BY <1>p, <1>l, <2>1, <3>3 DEF Prepared, Committing
      <4> QED BY <3>1, <4>1, <4>2 DEF QeMove, RollbackCmd, CommitCmd, AbortCmd
    <3> QED BY <2>1, <3>2, <3>3
  <2> QED BY <2>3, <2>4
<1>4. dtxState'[h] = "ONE_PHASE_COMMIT" => dtxSegments'[h] = {}
  BY <1>p, <1>s DEF Prepared, SameState
<1>5. ASSUME HasForget(h)', NEW t \in dtxSegments'[h] PROVE local'[h][t] = "committed"
  <2>1. t \in dtxSegments[h] /\ t \in Segment
    BY <1>5, <1>s, <1>t DEF SameState
  <2>2. CASE HasForget(h)
    <3>1. local[h][t] = "committed" /\ dtxState[h] # "ACTIVE_DISTRIBUTED"
      BY <1>p, <1>l, <2>1, <2>2 DEF Prepared, AllCommitted, Committing
    <3> QED BY <1>t, <2>1, <3>1, Settled
  <2>3. CASE RecoveredCommit(h)
    BY <1>p, <2>1, <2>3 DEF Prepared, RecoveredCommit, segVars
  <2> QED BY <1>5, <1>s, <2>2, <2>3 DEF SameLog
<1>6. ASSUME recPc' = "commit", recGxid' = {h}, ~ recFailed', NEW t \in dtxSegments'[h] \ recPending'
      PROVE  local'[h][t] = "committed"
  <2>1. t \in dtxSegments[h] /\ t \in Segment
    BY <1>6, <1>s, <1>t DEF SameState
  <2>2. recPc = "commit" /\ recGxid = {h} /\ ~ recFailed
    BY <1>6, <1>t, <2>1, RecoveryAnswers
  <2>3. CASE t \notin recPending
    <3>1. local[h][t] = "committed"
      BY <1>p, <2>1, <2>2, <2>3 DEF Prepared
    <3>2. dtxState[h] = "NONE"
      BY <2>2 DEF DtmInv, RecoveryOrder, Running
    <3> QED BY <1>t, <2>1, <3>1, <3>2, Settled
  <2>4. CASE t \in recPending
    <3>1. PICK m \in msgs : /\ m.gxid = h /\ m.cmd = "RECOVERY_COMMIT_PREPARED"
                            /\ QeMove(m, local[h][t], local'[h][t], TRUE)
      BY <1>6, <1>t, <2>1, <2>4, RecoveryAnswers
    <3>2. HasCommit(h)
      BY <3>1 DEF DtmInv, LateCommands, CommitCmd, Durable, HasCommit
    <3>3. local[h][t] \in {"prepared", "committed"}
      BY <1>p, <2>1, <3>2 DEF Prepared
    <3> QED BY <3>1, <3>3 DEF QeMove, RollbackCmd, CommitCmd, AbortCmd
  <2> QED BY <2>3, <2>4
<1>7. ASSUME dtxState'[h] = "ACTIVE_DISTRIBUTED", NEW t \in Segment
      PROVE  local'[h][t] \notin {"prepared", "committed"}
  <2>1. dtxState[h] = "ACTIVE_DISTRIBUTED"
    BY <1>7, <1>s DEF SameState
  <2>2. local[h][t] \notin {"prepared", "committed"}
    BY <1>p, <2>1 DEF Prepared
  <2>3. \A m \in msgs : m.gxid = h => m.cmd \notin {"PREPARE", "COMMIT_ONEPHASE"}
    BY <2>1 DEF DtmInv, LateCommands, Outcome
  <2>4. LocalMove(h, t)
    BY <1>t, LocalMoves
  <2> QED BY <2>2, <2>3, <2>4 DEF LocalMove
<1> QED BY <1>1, <1>2, <1>3, <1>4, <1>5, <1>6, <1>7 DEF Prepared, AllCommitted

(* The steps of h's own backend.                                            *)
LEMMA PreparedBackend ==
    ASSUME DtmInv, TypeOK', NEW h \in Gxid, Backend(h)
    PROVE  Prepared(h)'
<1>t. TypeOK /\ LogInv /\ Running /\ RecoveryOrder /\ dtxSegments[h] \subseteq Segment
  BY DEF DtmInv, TypeOK
<1>p. Prepared(h)
  BY DEF DtmInv, StatePrepared, Prepared
<1>r. recPc' # "commit"
  BY <1>t, BackendRuns
<1>l. /\ dtxState[h] # "NONE" => (HasCommit(h) <=> dtxState[h] \in Committing)
      /\ HasForget(h) => HasCommit(h)
      /\ HasCommit(h) => h \in used
  BY DEF DtmInv, StateLogged, Durable, HasCommit
<1>1. CASE RecordCommit(h)
  <2>1. /\ UNCHANGED <<dtxSegments, local>> /\ (HasForget(h)' <=> HasForget(h))
        /\ dtxState[h] = "PREPARED" \/ HasCommit(h)
        /\ dtxState'[h] \in {"PREPARED", "INSERTING_COMMITTED", "INSERTED_COMMITTED"}
    BY <1>1, <1>l, <1>t, RecordCommitFacts DEF segVars, Committing
  <2> QED BY <1>p, <1>r, <2>1 DEF Prepared, AllCommitted
<1>2. CASE doInsertForgetCommitted(h)
  <2>1. UNCHANGED <<dtxSegments, local>> /\ dtxState'[h] \in Forgetting
    BY <1>2, <1>t, ForgetFacts DEF segVars, Forgetting
  <2>2. AllCommitted(h)
    <3>1. CASE /\ dtxState[h] \in {"NOTIFYING_COMMIT_PREPARED", "RETRY_COMMIT_PREPARED"}
               /\ Succeeded(h)
      BY <1>p, <3>1 DEF Prepared, Succeeded, Answered, AllCommitted
    <3>2. CASE HasForget(h)
      BY <1>p, <3>2 DEF Prepared
    <3> QED BY <1>2, <1>t, <3>1, <3>2, ForgetFacts
  <2> QED BY <1>r, <2>1, <2>2 DEF Prepared, AllCommitted, Forgetting
<1>3. CASE ~ RecordCommit(h) /\ ~ doInsertForgetCommitted(h)
  <2>0. (HasCommit(h)' <=> HasCommit(h)) /\ (HasForget(h)' <=> HasForget(h))
    BY <1>3, BackendLog, LogUnchanged
  <2>d. ASSUME NEW cmd \in DtxProtocolCommand,
               Dispatch(h, dtxSegments[h], cmd) \/ DispatchNewGang(h, dtxSegments[h], cmd)
        PROVE  h \notin failed' => pending'[h] = dtxSegments[h]
    BY <1>t, <2>d, DispatchFacts
  <2>c. {"PREPARE", "COMMIT_ONEPHASE", "COMMIT_PREPARED", "RETRY_COMMIT_PREPARED"} \subseteq DtxProtocolCommand
    BY DEF DtxProtocolCommand, CommitCmd
  <2>1. CASE currentDtxActivate(h)
    <3>1. UNCHANGED local /\ h \notin used /\ dtxState'[h] = "ACTIVE_DISTRIBUTED"
      BY <1>t, <2>1 DEF currentDtxActivate, segVars, SetState, TypeOK
    <3>2. \A s \in Segment : local[h][s] = "none"
      BY <3>1 DEF DtmInv, Running, Outcome
    <3>3. ~ HasCommit(h) /\ ~ HasForget(h)
      BY <1>l, <3>1
    <3> QED BY <1>r, <2>0, <3>1, <3>2, <3>3 DEF Prepared
  <2>2. ASSUME NEW s \in Segment, NEW writes \in BOOLEAN, addToGxactDtxSegments(h, s, writes)
        PROVE  Prepared(h)'
    <3>1. /\ local' = [local EXCEPT ![h] = [local[h] EXCEPT ![s] = "active"]]
          /\ dtxState[h] = "ACTIVE_DISTRIBUTED" /\ dtxState' = dtxState
      BY <2>2 DEF addToGxactDtxSegments
    <3>2. \A t \in Segment : local'[h][t] = "active" \/ local'[h][t] = local[h][t]
      BY <1>t, <3>1 DEF TypeOK
    <3>3. ~ HasCommit(h) /\ ~ HasForget(h)
      BY <1>l, <3>1 DEF Committing
    <3> QED BY <1>p, <1>r, <2>0, <3>1, <3>2, <3>3 DEF Prepared
  <2>3. ASSUME NEW xid \in BOOLEAN, doNotifyingOnePhaseCommit(h, xid) PROVE Prepared(h)'
    <3>1. /\ UNCHANGED <<local, dtxSegments>> /\ dtxState[h] = "ACTIVE_DISTRIBUTED"
          /\ \/ dtxState'[h] = "ONE_PHASE_COMMIT" /\ dtxSegments[h] = {}
             \/ /\ dtxState'[h] = "NOTIFYING_ONE_PHASE_COMMIT"
                /\ Dispatch(h, dtxSegments[h], "COMMIT_ONEPHASE")
      BY <1>t, <2>3 DEF doNotifyingOnePhaseCommit, segVars, SetState, TypeOK
    <3>2. dtxState'[h] = "NOTIFYING_ONE_PHASE_COMMIT" /\ h \notin failed' => pending'[h] = dtxSegments[h]
      BY <2>d, <2>c, <3>1
    <3>3. ~ HasCommit(h) /\ ~ HasForget(h)
      BY <1>l, <3>1 DEF Committing
    <3> QED BY <1>r, <2>0, <3>1, <3>2, <3>3 DEF Prepared
  <2>4. ASSUME NEW xid \in BOOLEAN, doPrepareTransaction(h, xid) PROVE Prepared(h)'
    <3>1. /\ UNCHANGED <<local, dtxSegments>> /\ dtxState[h] = "ACTIVE_DISTRIBUTED"
          /\ dtxState'[h] = "PREPARING" /\ Dispatch(h, dtxSegments[h], "PREPARE")
      BY <1>t, <2>4 DEF doPrepareTransaction, SetState, TypeOK
    <3>2. h \notin failed' => pending'[h] = dtxSegments[h]
      BY <2>d, <2>c, <3>1
    <3>3. ~ HasCommit(h) /\ ~ HasForget(h)
      BY <1>l, <3>1 DEF Committing
    <3> QED BY <1>r, <2>0, <3>1, <3>2, <3>3 DEF Prepared
  <2>5. CASE EndOnePhase(h) \/ EndTwoPhase(h)
    <3>1. UNCHANGED <<local, dtxSegments>> /\ dtxState'[h] = "NONE"
      BY <1>t, <2>5 DEF EndOnePhase, EndTwoPhase, EndDtx, segVars, TypeOK
    <3> QED BY <1>p, <1>r, <2>0, <3>1 DEF Prepared, AllCommitted
  <2>6. CASE PrepareSucceeded(h)
    <3>1. /\ UNCHANGED <<local, dtxSegments>> /\ dtxState[h] = "PREPARING" /\ dtxState'[h] = "PREPARED"
          /\ pending[h] = {} /\ h \notin failed
      BY <1>t, <2>6 DEF PrepareSucceeded, SetState, Succeeded, Answered, segVars, TypeOK
    <3>2. ~ HasCommit(h) /\ ~ HasForget(h)
      BY <1>l, <3>1 DEF Committing
    <3> QED BY <1>p, <1>r, <2>0, <3>1, <3>2 DEF Prepared
  <2>7. CASE doNotifyingCommitPrepared(h) \/ RetryCommitPrepared(h)
    <3>1. /\ UNCHANGED <<local, dtxSegments>>
          /\ \/ dtxState'[h] = "NOTIFYING_COMMIT_PREPARED" /\ Dispatch(h, dtxSegments[h], "COMMIT_PREPARED")
             \/ /\ dtxState'[h] = "RETRY_COMMIT_PREPARED"
                /\ DispatchNewGang(h, dtxSegments[h], "RETRY_COMMIT_PREPARED")
      BY <1>t, <2>7 DEF doNotifyingCommitPrepared, RetryCommitPrepared, SetState, TypeOK
    <3>2. h \notin failed' => pending'[h] = dtxSegments[h]
      BY <2>d, <2>c, <3>1
    <3> QED BY <1>p, <1>r, <2>0, <3>1, <3>2 DEF Prepared, AllCommitted
  <2>8. CASE QdAborts(h) \/ QdExit(h)
    <3>1. dtxState[h] \in Uncommitted /\ dtxState'[h] \in Aborting \cup {"NONE"}
      BY <1>t, <2>8 DEF QdAborts, QdExit, RollbackOmitted, doNotifyingAbort, retryAbortPrepared, EndAbort,
              Rollbackable, SetState, EndDtx, Uncommitted, Committing, Aborting, DtxState, TypeOK
    <3>2. ~ HasCommit(h) /\ ~ HasForget(h)
      BY <1>l, <3>1 DEF Uncommitted
    <3> QED BY <1>r, <2>0, <3>1, <3>2 DEF Prepared, Aborting
  <2> QED BY <1>3, <2>1, <2>2, <2>3, <2>4, <2>5, <2>6, <2>7, <2>8 DEF Backend, User, QdCommits
<1> QED BY <1>1, <1>2, <1>3

(* The segments are where the backends' states say.                         *)
LEMMA StatePreparedStep == DtmInv /\ [Next]_vars => StatePrepared'
<1> SUFFICES ASSUME DtmInv, [Next]_vars, NEW h \in Gxid PROVE Prepared(h)'
  BY DEF StatePrepared, Prepared
<1>t. TypeOK' /\ TypeOK /\ LogInv
  BY CoreStep DEF DtmInv
<1>p. Prepared(h)
  BY DEF DtmInv, StatePrepared, Prepared
<1>1. CASE Backend(h)
  BY <1>1, <1>t, PreparedBackend
<1>2. CASE Next /\ ~ Backend(h) /\ ~ CoordinatorCrash
  BY <1>2, PreparedOther
<1>3. CASE CoordinatorCrash
  <2>1. UNCHANGED <<dtxSegments, local>> /\ dtxState'[h] = "NONE" /\ recGxid' = {} /\ Crash
    BY <1>3 DEF CoordinatorCrash
  <2>2. LsnOrder /\ LogTypeOK
    BY DEF DtmInv, LogInv
  <2>3. (HasCommit(h)' => HasCommit(h)) /\ (HasForget(h)' => HasForget(h))
    BY <2>1, <2>2, LogAfterCrash
  <2> QED BY <1>p, <2>1, <2>3 DEF Prepared, AllCommitted
<1>4. CASE UNCHANGED vars
  <2>1. UNCHANGED logVars /\ UNCHANGED <<dtxState, dtxSegments, pending, failed, local, recPc, recGxid,
                                         recFailed, recPending>>
    BY <1>4 DEF vars, qdVars, segVars, dtrVars
  <2> QED BY <1>p, <2>1, LogUnchanged DEF Prepared, AllCommitted
<1> QED BY <1>1, <1>2, <1>3, <1>4

-----------------------------------------------------------------------------
(* What no step takes back.                                                 *)
LEMMA Lasting ==
    ASSUME DtmInv, [Next]_vars, NEW h \in Gxid
    PROVE  /\ dtxSegments[h] \subseteq dtxSegments'[h]
           /\ h \in onePhase => h \in onePhase'
           /\ h \in used => h \in used'
           /\ Durable(h) => Durable(h)'
           /\ HasCommit(h)' => HasCommit(h) \/ (RecordCommit(h) /\ dtxState[h] = "PREPARED")
<1>t. TypeOK' /\ TypeOK /\ LogInv /\ LogTypeOK /\ LsnOrder
  BY CoreStep DEF DtmInv, LogInv
<1>1. CASE RecordCommit(h)
  BY <1>1, <1>t, RecordCommitFacts
<1>2. CASE doInsertForgetCommitted(h)
  BY <1>2, <1>t, ForgetFacts
<1>3. CASE Backend(h) /\ ~ RecordCommit(h) /\ ~ doInsertForgetCommitted(h)
  <2>1. (Durable(h)' <=> Durable(h)) /\ (HasCommit(h)' <=> HasCommit(h))
    BY <1>3, BackendLog, LogUnchanged
  <2>2. dtxSegments[h] \subseteq dtxSegments'[h] /\ onePhase \subseteq onePhase' /\ used \subseteq used'
    BY <1>3, <1>t DEF Backend, User, QdCommits, QdAborts, QdExit,
         currentDtxActivate, addToGxactDtxSegments, doNotifyingOnePhaseCommit, doPrepareTransaction,
         EndOnePhase, PrepareSucceeded, doNotifyingCommitPrepared, RetryCommitPrepared, EndTwoPhase,
         RollbackOmitted, doNotifyingAbort, retryAbortPrepared, EndAbort, TypeOK
  <2> QED BY <2>1, <2>2
<1>4. CASE Next /\ ~ Backend(h) /\ ~ CoordinatorCrash
  BY <1>4, <1>t, OtherState, OtherLog DEF SameState, SameLog
<1>5. CASE CoordinatorCrash
  <2>1. UNCHANGED <<dtxSegments, onePhase, used>> /\ Crash
    BY <1>5 DEF CoordinatorCrash
  <2> QED BY <1>t, <2>1, LogAfterCrash
<1>6. CASE UNCHANGED vars
  <2>1. UNCHANGED logVars /\ UNCHANGED <<dtxSegments, onePhase, used>>
    BY <1>6 DEF vars, qdVars
  <2> QED BY <2>1, LogUnchanged
<1> QED BY <1>1, <1>2, <1>3, <1>4, <1>5, <1>6

(* A transaction that may commit in one phase wrote on at most one segment. *)
LEMMA OneWriter ==
    ASSUME TypeOK, Running, NEW g \in Gxid, NEW xid \in BOOLEAN, OnePhase(g, xid),
           NEW s \in wrote[g], NEW t \in wrote[g]
    PROVE  s = t
<1>1. wrote[g] # {} /\ Cardinality(dtxSegments[g]) < 2
  BY DEF OnePhase
<1>2. dtxSegments[g] \subseteq Segment /\ IsFiniteSet(Segment)
  BY DEF TypeOK
<1>3. IsFiniteSet(dtxSegments[g]) /\ Cardinality(dtxSegments[g]) \in Nat
  BY <1>2, FS_Subset, FS_CardinalityType
<1>4. {s, t} \subseteq dtxSegments[g]
  BY DEF Running
<1>5. SUFFICES ASSUME s # t PROVE FALSE
  OBVIOUS
<1>6. IsFiniteSet({s}) /\ Cardinality({s}) = 1
  BY FS_Singleton
<1>7. Cardinality({s} \cup {t}) = 2
  <2>1. Cardinality({s} \cup {t}) = IF t \in {s} THEN Cardinality({s}) ELSE Cardinality({s}) + 1
    BY <1>6, FS_AddElement, Zenon
  <2>2. t \notin {s}
    BY <1>5
  <2> QED BY <1>6, <2>1, <2>2
<1>8. {s} \cup {t} = {s, t}
  OBVIOUS
<1>9. Cardinality({s, t}) <= Cardinality(dtxSegments[g])
  BY <1>3, <1>4, FS_Subset
<1> QED BY <1>1, <1>3, <1>7, <1>8, <1>9

\* What Outcome says of a transaction that chose the one-phase commit.
OnePhaseState(h) ==
    /\ h \in onePhase =>
          /\ ~ HasCommit(h)
          /\ h \in used
          /\ dtxState[h] \in {"ONE_PHASE_COMMIT", "NOTIFYING_ONE_PHASE_COMMIT",
                              "NOTIFYING_ABORT_NO_PREPARED", "NONE"}
          /\ \A s, t \in wrote[h] : s = t
    /\ dtxState[h] \in {"ONE_PHASE_COMMIT", "NOTIFYING_ONE_PHASE_COMMIT"} => h \in onePhase

\* A one-phase transaction never writes a commit record and never takes a two-phase state.
LEMMA OnePhaseStep == ASSUME DtmInv, [Next]_vars, NEW h \in Gxid PROVE OnePhaseState(h)'
<1>t. TypeOK' /\ TypeOK /\ Running /\ LogInv
  BY CoreStep DEF DtmInv
<1>0. OnePhaseState(h)
  BY DEF DtmInv, Outcome, OnePhaseState
<1>h. ~ HasCommit(h) => ~ HasCommit(h)' \/ (RecordCommit(h) /\ dtxState[h] = "PREPARED")
  BY Lasting
<1>1. CASE UNCHANGED vars \/ (Next /\ ~ Backend(h) /\ ~ CoordinatorCrash)
  <2>1. SameState(h)
    BY <1>1, <1>t, OtherState DEF vars, qdVars, SameState
  <2> QED BY <1>0, <1>h, <2>1 DEF OnePhaseState, SameState
<1>2. CASE CoordinatorCrash
  BY <1>0, <1>2, <1>h DEF OnePhaseState, CoordinatorCrash
<1>3. CASE RecordCommit(h) \/ doInsertForgetCommitted(h)
  <2>1. /\ h \notin onePhase /\ onePhase' = onePhase
        /\ dtxState'[h] \notin {"ONE_PHASE_COMMIT", "NOTIFYING_ONE_PHASE_COMMIT"}
    BY <1>0, <1>3, <1>t, RecordCommitFacts, ForgetFacts DEF OnePhaseState
  <2> QED BY <2>1 DEF OnePhaseState
<1>4. CASE Backend(h) /\ ~ RecordCommit(h) /\ ~ doInsertForgetCommitted(h)
  <2>0. ~ HasCommit(h) => ~ HasCommit(h)'
    BY <1>4, <1>h
  <2>1. ASSUME NEW xid \in BOOLEAN, doNotifyingOnePhaseCommit(h, xid) PROVE OnePhaseState(h)'
    <3>1. /\ dtxState[h] = "ACTIVE_DISTRIBUTED" /\ wrote' = wrote /\ used' = used /\ h \in onePhase'
          /\ dtxState'[h] \in {"ONE_PHASE_COMMIT", "NOTIFYING_ONE_PHASE_COMMIT"}
          /\ OnePhase(h, xid)
      BY <1>t, <2>1 DEF doNotifyingOnePhaseCommit, SetState, TypeOK
    <3>2. ~ HasCommit(h) /\ h \in used
      BY <3>1 DEF DtmInv, StateLogged, Running, Committing
    <3>3. \A s, t \in wrote[h] : s = t
      BY <1>t, <3>1, OneWriter
    <3> QED BY <2>0, <3>1, <3>2, <3>3 DEF OnePhaseState
  <2>2. CASE currentDtxActivate(h)
    BY <1>0, <1>t, <2>2 DEF OnePhaseState, currentDtxActivate, SetState, TypeOK
  <2>3. ASSUME NEW s \in Segment, NEW writes \in BOOLEAN, addToGxactDtxSegments(h, s, writes)
        PROVE  OnePhaseState(h)'
    BY <1>0, <2>3 DEF OnePhaseState, addToGxactDtxSegments
  <2>4. ASSUME NEW xid \in BOOLEAN, doPrepareTransaction(h, xid) PROVE OnePhaseState(h)'
    BY <1>0, <1>t, <2>4 DEF OnePhaseState, doPrepareTransaction, SetState, TypeOK
  <2>5. CASE QdCommits(h)
    BY <1>0, <1>4, <1>t, <2>0, <2>5 DEF OnePhaseState, QdCommits, EndOnePhase, PrepareSucceeded,
       doNotifyingCommitPrepared, RetryCommitPrepared, EndTwoPhase, SetState, EndDtx, TypeOK
  <2>6. CASE QdAborts(h) \/ QdExit(h)
    BY <1>0, <1>t, <2>0, <2>6 DEF OnePhaseState, QdAborts, QdExit, RollbackOmitted, doNotifyingAbort,
       retryAbortPrepared, EndAbort, Rollbackable, SetState, EndDtx, TypeOK
  <2> QED BY <1>4, <2>1, <2>2, <2>3, <2>4, <2>5, <2>6 DEF Backend, User
<1> QED BY <1>1, <1>2, <1>3, <1>4

(* A segment commits only what is decided.                                  *)
LEMMA OutcomeStep == DtmInv /\ [Next]_vars => Outcome'
<1> SUFFICES ASSUME DtmInv, [Next]_vars, NEW h \in Gxid
             PROVE  /\ \A t \in Segment : local'[h][t] = "committed" => Durable(h)' \/ h \in onePhase'
                    /\ \A t \in Segment \ dtxSegments'[h] : local'[h][t] = "none"
                    /\ OnePhaseState(h)'
  BY DEF Outcome, OnePhaseState
<1>t. TypeOK
  BY DEF DtmInv
<1>1. ASSUME NEW t \in Segment, local'[h][t] = "committed" PROVE Durable(h)' \/ h \in onePhase'
  <2>1. local[h][t] = "committed" => Durable(h) \/ h \in onePhase
    BY DEF DtmInv, Outcome
  <2>2. \A m \in msgs : m.gxid = h =>
           (m.cmd \in CommitCmd => Durable(h)) /\ (m.cmd = "COMMIT_ONEPHASE" => h \in onePhase)
    BY DEF DtmInv, LateCommands
  <2>3. Durable(h) \/ h \in onePhase
    BY <1>1, <1>t, <2>1, <2>2, LocalMoves DEF LocalMove
  <2> QED BY <2>3, Lasting
<1>2. ASSUME NEW t \in Segment \ dtxSegments'[h] PROVE local'[h][t] = "none"
  <2>1. t \notin dtxSegments[h]
    BY <1>2, Lasting
  <2>2. local[h][t] = "none"
    BY <2>1 DEF DtmInv, Outcome
  <2> QED BY <1>2, <1>t, <2>2, LocalMoves DEF LocalMove
<1> QED BY <1>1, <1>2, OnePhaseStep

-----------------------------------------------------------------------------
(* Where a command comes from: it was there before (waited for or not), a   *)
(* backend has just sent it, or the recovery process has.                   *)
LEMMA Origin ==
    ASSUME TypeOK, TypeOK', [Next]_vars, NEW m \in msgs'
    PROVE  \/ \E n \in msgs : n.gxid = m.gxid /\ n.cmd = m.cmd
           \/ Backend(m.gxid) /\ <<dtxState'[m.gxid], m.cmd>> \in Broadcast
           \/ doNotifyCommittedInDoubt(m.gxid) /\ m.cmd = "RECOVERY_COMMIT_PREPARED"
           \/ doAbortInDoubt(m.gxid) /\ m.cmd = "RECOVERY_ABORT_PREPARED"
<1> DEFINE Goal ==
           \/ \E n \in msgs : n.gxid = m.gxid /\ n.cmd = m.cmd
           \/ Backend(m.gxid) /\ <<dtxState'[m.gxid], m.cmd>> \in Broadcast
           \/ doNotifyCommittedInDoubt(m.gxid) /\ m.cmd = "RECOVERY_COMMIT_PREPARED"
           \/ doAbortInDoubt(m.gxid) /\ m.cmd = "RECOVERY_ABORT_PREPARED"
<1>1. CASE m \in msgs
  BY <1>1
<1>2. ASSUME NEW g \in Gxid, Backend(g), m \notin msgs PROVE Goal
  <2>1. dtxSegments'[g] \in SUBSET Segment
    BY DEF TypeOK
  <2>2. PICK cmd \in DtxProtocolCommand \ RecoveryCmd :
           /\ Dispatch(g, dtxSegments'[g], cmd) \/ DispatchNewGang(g, dtxSegments'[g], cmd)
           /\ <<dtxState'[g], cmd>> \in Broadcast
    BY <1>2, BackendSends
  <2>3. m.gxid = g /\ m.cmd = cmd
    BY <1>2, <2>1, <2>2, DispatchFacts
  <2> QED BY <1>2, <2>2, <2>3
<1>3. ASSUME NEW g \in Gxid, NEW s \in Segment, QeRuns(g, s) PROVE m \in msgs
  <2>1. ASSUME NEW n \in msgs, performDtxProtocolCommand(n) PROVE m \in msgs
    <3>1. PICK ok \in BOOLEAN, context \in QEContext : Reply(n, ok, context)
      BY <2>1, PerformFacts
    <3> QED BY <3>1 DEF Reply
  <2>2. CASE QeExit(g, s) \/ (\E n \in msgs : AbandonCommand(n))
    BY <2>2 DEF QeExit, AbandonCommand
  <2> QED BY <1>3, <2>1, <2>2 DEF QeRuns
<1>4. CASE RecoveryProcess
  <2>1. ASSUME NEW g \in Gxid, doNotifyCommittedInDoubt(g) PROVE Goal
    <3>1. m \in msgs \/ m \in Commands(g, Segment, "RECOVERY_COMMIT_PREPARED")
      BY <2>1 DEF doNotifyCommittedInDoubt, RecDispatch
    <3> QED BY <1>1, <2>1, <3>1 DEF Commands
  <2>2. ASSUME NEW g \in Gxid, doAbortInDoubt(g) PROVE Goal
    <3>1. m \in msgs \/ m \in Commands(g, Segment, "RECOVERY_ABORT_PREPARED")
      BY <2>2 DEF doAbortInDoubt, RecDispatch
    <3> QED BY <1>1, <2>2, <3>1 DEF Commands
  <2>3. CASE ~ \E g \in Gxid : doNotifyCommittedInDoubt(g) \/ doAbortInDoubt(g)
    BY <1>1, <1>4, <2>3 DEF RecoveryProcess, RecoveredCommit, RecoveryFatal, CommittedRecovered,
              SkipInProgress, AbortedInDoubt, gatherRMInDoubtTransactions, RoundDone, segVars
  <2> QED BY <2>1, <2>2, <2>3
<1>5. CASE BackgroundLog \/ GatherFailed \/ CoordinatorStartup \/ UNCHANGED vars
  BY <1>1, <1>5 DEF BackgroundLog, GatherFailed, CoordinatorStartup, vars, segVars
<1>6. ASSUME NEW n \in msgs, m = [n EXCEPT !.live = FALSE] PROVE Goal
  <2>1. n \in Message
    BY DEF TypeOK
  <2>2. n.gxid = m.gxid /\ n.cmd = m.cmd
    BY <1>6, <2>1 DEF Message
  <2> QED BY <2>2
<1>7. ASSUME NEW n \in msgs, LoseConnection(n) PROVE Goal
  <2>1. m \in msgs \/ m = [n EXCEPT !.live = FALSE]
    BY <1>7 DEF LoseConnection
  <2> QED BY <1>1, <1>6, <2>1
<1>8. ASSUME NEW s \in Segment, SegmentRestart(s) PROVE m \in msgs
  BY <1>8 DEF SegmentRestart
<1>9. CASE CoordinatorCrash
  <2>1. PICK n \in msgs : m = [n EXCEPT !.live = FALSE]
    BY <1>9 DEF CoordinatorCrash
  <2> QED BY <1>6, <2>1
<1> QED BY <1>1, <1>2, <1>3, <1>4, <1>5, <1>7, <1>8, <1>9 DEF Next, Backend

\* What LateCommands says of a command cmd for transaction h.
Agrees(h, cmd) ==
    /\ h \in used
    /\ cmd \in CommitCmd => Durable(h)
    /\ cmd = "PREPARE" => dtxState[h] # "ACTIVE_DISTRIBUTED"
    /\ cmd = "COMMIT_ONEPHASE" => h \in onePhase
    /\ cmd \in RollbackCmd => /\ dtxState[h] \in Aborting \cup {"NONE"}
                              /\ HasCommit(h) => AllCommitted(h)

(* A command that agrees with the decision goes on to do so.                *)
LEMMA AgreesStep ==
    ASSUME DtmInv, [Next]_vars, NEW h \in Gxid, NEW cmd, Agrees(h, cmd)
    PROVE  Agrees(h, cmd)'
<1>t. TypeOK /\ TypeOK' /\ Running /\ LogInv /\ dtxSegments[h] \subseteq Segment
  BY CoreStep DEF DtmInv, TypeOK
<1>1. /\ h \in used'
      /\ cmd \in CommitCmd => Durable(h)'
      /\ cmd = "COMMIT_ONEPHASE" => h \in onePhase'
  BY Lasting DEF Agrees
<1>s. \/ Backend(h)
      \/ dtxState'[h] = dtxState[h] /\ dtxSegments'[h] = dtxSegments[h]
      \/ dtxState'[h] = "NONE" /\ dtxSegments'[h] = dtxSegments[h]
  <2>1. CASE CoordinatorCrash
    BY <2>1 DEF CoordinatorCrash
  <2>2. CASE Next /\ ~ Backend(h) /\ ~ CoordinatorCrash
    BY <1>t, <2>2, OtherState DEF SameState
  <2>3. CASE UNCHANGED vars
    BY <2>3 DEF vars, qdVars
  <2> QED BY <2>1, <2>2, <2>3
<1>b. ASSUME Backend(h) PROVE dtxState[h] # "NONE"
  <2>1. h \in used
    BY DEF Agrees
  <2>2. CASE RecordCommit(h)
    BY <2>2 DEF RecordCommit
  <2>3. CASE doInsertForgetCommitted(h)
    BY <2>3 DEF doInsertForgetCommitted
  <2>4. CASE ~ RecordCommit(h) /\ ~ doInsertForgetCommitted(h)
    BY <1>b, <1>t, <2>1, <2>4, BackendMoves DEF Uncommitted
  <2> QED BY <2>2, <2>3, <2>4
<1>2. ASSUME cmd = "PREPARE" PROVE dtxState'[h] # "ACTIVE_DISTRIBUTED"
  <2>1. dtxState[h] # "ACTIVE_DISTRIBUTED" /\ h \in used
    BY <1>2 DEF Agrees
  <2>2. CASE RecordCommit(h) \/ doInsertForgetCommitted(h)
    BY <1>t, <2>2, RecordCommitFacts, ForgetFacts
  <2>3. CASE Backend(h) /\ ~ RecordCommit(h) /\ ~ doInsertForgetCommitted(h)
    BY <1>t, <2>1, <2>3, BackendMoves DEF Uncommitted
  <2> QED BY <1>s, <2>1, <2>2, <2>3
<1>3. ASSUME cmd \in RollbackCmd
      PROVE  dtxState'[h] \in Aborting \cup {"NONE"} /\ (HasCommit(h)' => AllCommitted(h)')
  <2>1. dtxState[h] \in Aborting \cup {"NONE"} /\ (HasCommit(h) => AllCommitted(h))
    BY <1>3 DEF Agrees
  <2>2. ~ RecordCommit(h) /\ ~ doInsertForgetCommitted(h)
    BY <2>1 DEF RecordCommit, doInsertForgetCommitted, Aborting
  <2>3. dtxState'[h] \in Aborting \cup {"NONE"}
    <3>1. CASE Backend(h)
      BY <1>b, <1>t, <2>1, <2>2, <3>1, BackendMoves DEF Aborting
    <3> QED BY <1>s, <2>1, <3>1
  <2>4. ASSUME HasCommit(h)' PROVE AllCommitted(h)'
    <3>1. HasCommit(h)
      BY <2>2, <2>4, Lasting
    <3>2. dtxState[h] = "NONE"
      BY <2>1, <3>1 DEF DtmInv, StateLogged, Committing, Aborting
    <3>3. dtxSegments'[h] = dtxSegments[h]
      BY <1>b, <1>s, <3>2
    <3>4. \A t \in dtxSegments[h] : local[h][t] = "committed" /\ t \in Segment
      BY <1>t, <2>1, <3>1 DEF AllCommitted
    <3> QED BY <3>2, <3>3, <3>4, Settled DEF AllCommitted
  <2> QED BY <2>3, <2>4
<1> QED BY <1>1, <1>2, <1>3 DEF Agrees

(* Every command agrees with the decision when it is sent, and goes on to.  *)
LEMMA LateCommandsStep == DtmInv /\ [Next]_vars => LateCommands'
<1> SUFFICES ASSUME DtmInv, [Next]_vars PROVE LateCommands'
  OBVIOUS
<1>t. /\ TypeOK' /\ TypeOK /\ LogInv /\ Running' /\ StateLogged' /\ Outcome' /\ used \subseteq used'
      /\ used \subseteq Gxid
  BY CoreStep, OutcomeStep, Lasting DEF DtmInv, TypeOK
<1>1. ASSUME NEW m \in msgs' PROVE Agrees(m.gxid, m.cmd)'
  <2> DEFINE h == m.gxid
  <2>0. h \in Gxid
    BY <1>t DEF TypeOK, Message
  <2> HIDE DEF h
  <2>1. CASE \E n \in msgs : n.gxid = h /\ n.cmd = m.cmd
    <3>1. Agrees(h, m.cmd)
      BY <2>1 DEF DtmInv, LateCommands, Agrees
    <3> QED BY <2>0, <3>1, AgreesStep DEF h
  <2>2. CASE Backend(h) /\ <<dtxState'[h], m.cmd>> \in Broadcast
    <3>1. dtxState'[h] # "NONE"
      BY <2>2 DEF Broadcast
    <3>2. h \in used'
      BY <1>t, <2>0, <3>1 DEF Running
    <3>3. ASSUME m.cmd \in CommitCmd PROVE Durable(h)'
      <4>1. dtxState'[h] \in {"NOTIFYING_COMMIT_PREPARED", "RETRY_COMMIT_PREPARED"}
        BY <2>2, <3>3 DEF Broadcast, CommitCmd
      <4> QED BY <1>t, <2>0, <4>1 DEF StateLogged, Committing
    <3>4. m.cmd = "PREPARE" => dtxState'[h] # "ACTIVE_DISTRIBUTED"
      BY <2>2 DEF Broadcast
    <3>5. m.cmd = "COMMIT_ONEPHASE" => h \in onePhase'
      <4>1. m.cmd = "COMMIT_ONEPHASE" => dtxState'[h] = "NOTIFYING_ONE_PHASE_COMMIT"
        BY <2>2 DEF Broadcast
      <4> QED BY <1>t, <2>0, <4>1 DEF Outcome
    <3>6. ASSUME m.cmd \in RollbackCmd PROVE dtxState'[h] \in Aborting /\ ~ HasCommit(h)'
      <4>1. dtxState'[h] \in Aborting
        BY <2>2, <3>6 DEF Broadcast, RollbackCmd, AbortCmd, Aborting
      <4> QED BY <1>t, <2>0, <3>1, <4>1 DEF StateLogged, Committing, Aborting
    <3> QED BY <3>2, <3>3, <3>4, <3>5, <3>6 DEF Agrees, h
  <2>3. CASE doNotifyCommittedInDoubt(h) /\ m.cmd = "RECOVERY_COMMIT_PREPARED"
    <3>1. Durable(h)
      BY <2>3 DEF doNotifyCommittedInDoubt, DtmInv, LogInv, MemoryLogged
    <3>2. h \in used
      BY <2>0, <3>1 DEF DtmInv, StateLogged, Durable, HasCommit
    <3> QED BY <2>0, <2>3, <3>1, <3>2, Lasting DEF Agrees, RollbackCmd, AbortCmd, h
  <2>4. CASE doAbortInDoubt(h) /\ m.cmd = "RECOVERY_ABORT_PREPARED"
    <3>1. h \in used
      BY <2>4 DEF doAbortInDoubt, DtmInv, LateCommands
    <3>2. dtxState[h] = "NONE"
      BY <2>0, <2>4 DEF doAbortInDoubt, DtmInv, Running
    <3>3. HasCommit(h) => AllCommitted(h)
      <4>1. shmCommitted = {} /\ up
        BY <2>4 DEF doAbortInDoubt, DtmInv, RecoveryOrder
      <4>2. h \notin includeInCkpt /\ h \notin delayChkpt
        BY <2>0, <3>2 DEF DtmInv, StateLogged, Committing
      <4>3. HasCommit(h) => HasForget(h)
        BY <2>0, <4>1, <4>2 DEF DtmInv, LogInv, PendingCommitKept
      <4> QED BY <2>0, <4>3 DEF DtmInv, StatePrepared
    <3>4. Agrees(h, m.cmd)
      BY <2>4, <3>1, <3>2, <3>3 DEF Agrees, CommitCmd
    <3> QED BY <2>0, <3>4, AgreesStep DEF h
  <2> QED BY <1>t, <2>1, <2>2, <2>3, <2>4, Origin DEF h
<1>2. inDoubt' \subseteq used'
  <2>1. inDoubt \subseteq used
    BY DEF DtmInv, LateCommands
  <2>2. ASSUME NEW s \in Segment, gatherRMInDoubtTransactions(s) PROVE inDoubt' \subseteq used
    <3>1. ASSUME NEW g \in Gxid, local[g][s] = "prepared" PROVE g \in used
      BY <3>1 DEF DtmInv, Outcome, Running
    <3> QED BY <2>1, <2>2, <3>1 DEF gatherRMInDoubtTransactions
  <2>3. CASE \A s \in Segment : ~ gatherRMInDoubtTransactions(s)
    <3>1. ASSUME NEW g \in Gxid, Backend(g) PROVE inDoubt' = inDoubt
      BY <1>t, <3>1, BackendSends DEF dtrVars
    <3>2. ASSUME NEW g \in Gxid, NEW s \in Segment, QeRuns(g, s) PROVE inDoubt' = inDoubt
      <4>1. ASSUME NEW n \in msgs, performDtxProtocolCommand(n) PROVE inDoubt' = inDoubt
        <5>1. PICK ok \in BOOLEAN, context \in QEContext : Reply(n, ok, context)
          BY <1>t, <4>1, PerformFacts
        <5> QED BY <5>1 DEF Reply
      <4>2. CASE QeExit(g, s) \/ (\E n \in msgs : AbandonCommand(n))
        BY <4>2 DEF QeExit, AbandonCommand, dtrVars
      <4> QED BY <3>2, <4>1, <4>2 DEF QeRuns
    <3>3. CASE RecoveryProcess
      BY <1>t, <2>1, <2>3, <3>3 DEF RecoveryProcess, RecoveredCommit, RecoveryFatal, CommittedRecovered,
            doNotifyCommittedInDoubt, doAbortInDoubt, SkipInProgress, AbortedInDoubt, RoundDone
    <3>4. CASE BackgroundLog \/ GatherFailed \/ CoordinatorStartup \/ CoordinatorCrash \/ UNCHANGED vars
      BY <1>t, <2>1, <3>4 DEF BackgroundLog, GatherFailed, CoordinatorStartup, CoordinatorCrash, vars, dtrVars
    <3>5. CASE (\E n \in msgs : LoseConnection(n)) \/ (\E s \in Segment : SegmentRestart(s))
      BY <1>t, <2>1, <3>5 DEF LoseConnection, SegmentRestart
    <3> QED BY <1>t, <2>1, <3>1, <3>2, <3>3, <3>4, <3>5 DEF Next, Backend
  <2> QED BY <1>t, <2>2, <2>3
<1> QED BY <1>1, <1>2 DEF LateCommands, Agrees

(* The answer the client got holds for good.                                *)
LEMMA AnswerHoldsStep == DtmInv /\ [Next]_vars => AnswerHolds'
<1> SUFFICES ASSUME DtmInv, [Next]_vars, NEW h \in Gxid
             PROVE  /\ told'[h] = "commit" => \A s \in wrote'[h] : local'[h][s] = "committed"
                    /\ told'[h] = "abort" /\ h \notin onePhase' =>
                          /\ ~ HasCommit(h)'
                          /\ \A s \in Segment : local'[h][s] # "committed"
  BY DEF AnswerHolds
<1>t. TypeOK' /\ TypeOK /\ LogInv /\ Running /\ Outcome' /\ wrote[h] \subseteq Segment
  BY CoreStep, OutcomeStep DEF DtmInv, TypeOK
<1>1. SUFFICES /\ told'[h] = "commit" => \A s \in wrote'[h] : local'[h][s] = "committed"
               /\ told'[h] = "abort" /\ h \notin onePhase' => ~ HasCommit(h)'
  BY <1>1, <1>t DEF Outcome, Durable, HasCommit
<1>o. h \in onePhase => h \in onePhase'
  BY Lasting
<1>2. ASSUME told[h] # "none"
      PROVE  /\ told'[h] = "commit" => \A s \in wrote'[h] : local'[h][s] = "committed"
             /\ told'[h] = "abort" /\ h \notin onePhase' => ~ HasCommit(h)'
  <2>1. dtxState[h] = "NONE" /\ h \in used
    BY <1>2 DEF DtmInv, Running
  <2>2. ~ Backend(h)
    <3>1. ~ RecordCommit(h) /\ ~ doInsertForgetCommitted(h)
      BY <2>1 DEF RecordCommit, doInsertForgetCommitted
    <3> QED BY <1>t, <2>1, <3>1, BackendMoves DEF Uncommitted
  <2>3. told'[h] = told[h] /\ wrote'[h] = wrote[h]
    <3>1. CASE CoordinatorCrash \/ UNCHANGED vars
      BY <3>1 DEF CoordinatorCrash, vars, qdVars
    <3>2. CASE Next /\ ~ CoordinatorCrash
      BY <1>t, <2>2, <3>2, OtherState DEF SameState
    <3> QED BY <3>1, <3>2
  <2>4. HasCommit(h)' => HasCommit(h)
    BY <2>1, Lasting
  <2>5. told[h] = "commit" => \A s \in wrote[h] : local[h][s] = "committed" /\ s \in Segment
    BY <1>t DEF DtmInv, AnswerHolds
  <2>6. told[h] = "abort" /\ h \notin onePhase => ~ HasCommit(h)
    BY DEF DtmInv, AnswerHolds
  <2>7. told'[h] = "commit" => \A s \in wrote'[h] : local'[h][s] = "committed"
    BY <2>1, <2>3, <2>5, Settled
  <2> QED BY <1>o, <2>3, <2>4, <2>6, <2>7
<1>3. ASSUME told[h] = "none", told'[h] # "none"
      PROVE  /\ told'[h] = "commit" => \A s \in wrote'[h] : local'[h][s] = "committed"
             /\ told'[h] = "abort" /\ h \notin onePhase' => ~ HasCommit(h)'
  <2>1. Backend(h)
    <3>1. ~ CoordinatorCrash /\ ~ UNCHANGED vars
      BY <1>3 DEF CoordinatorCrash, vars, qdVars
    <3> QED BY <1>3, <1>t, <3>1, OtherState DEF SameState
  <2>2. CASE EndOnePhase(h)
    <3>1. /\ UNCHANGED <<local, wrote>> /\ told'[h] = "commit" /\ h \notin failed /\ pending[h] = {}
          /\ dtxState[h] \in {"ONE_PHASE_COMMIT", "NOTIFYING_ONE_PHASE_COMMIT"}
      BY <1>t, <2>2 DEF EndOnePhase, EndDtx, Succeeded, Answered, segVars, TypeOK
    <3>2. \A s \in dtxSegments[h] : local[h][s] = "committed"
      BY <3>1 DEF DtmInv, StatePrepared
    <3> QED BY <1>t, <3>1, <3>2 DEF Running
  <2>3. CASE EndTwoPhase(h)
    <3>1. /\ UNCHANGED <<local, wrote>> /\ told'[h] = "commit"
          /\ dtxState[h] = "INSERTED_FORGET_COMMITTED"
      BY <1>t, <2>3 DEF EndTwoPhase, EndDtx, segVars, TypeOK
    <3>2. AllCommitted(h)
      BY <3>1 DEF DtmInv, StateLogged, StatePrepared, Forgetting
    <3> QED BY <1>t, <3>1, <3>2 DEF Running, AllCommitted
  <2>4. CASE RollbackOmitted(h) \/ EndAbort(h)
    <3>1. told'[h] = "abort" /\ dtxState[h] \in Uncommitted
      BY <1>t, <2>4 DEF RollbackOmitted, EndAbort, EndDtx, Uncommitted, Committing, DtxState, TypeOK
    <3>2. ~ HasCommit(h) /\ dtxState[h] # "NONE"
      BY <3>1 DEF DtmInv, StateLogged, Uncommitted
    <3>3. ~ RecordCommit(h)
      BY <1>3, <3>1 DEF RecordCommit
    <3> QED BY <3>1, <3>2, <3>3, Lasting
  <2>5. EndOnePhase(h) \/ EndTwoPhase(h) \/ RollbackOmitted(h) \/ EndAbort(h)
    <3>1. CASE User(h)
      BY <1>3, <3>1 DEF User, currentDtxActivate, addToGxactDtxSegments, doNotifyingOnePhaseCommit,
                        doPrepareTransaction
    <3>2. CASE QdCommits(h)
      BY <1>3, <3>2 DEF QdCommits, PrepareSucceeded, RecordCommit, doNotifyingCommitPrepared,
                        RetryCommitPrepared, doInsertForgetCommitted
    <3>3. CASE QdAborts(h) \/ QdExit(h)
      BY <1>3, <1>t, <3>3 DEF QdAborts, QdExit, doNotifyingAbort, retryAbortPrepared, EndDtx, TypeOK
    <3> QED BY <2>1, <3>1, <3>2, <3>3 DEF Backend
  <2> QED BY <2>2, <2>3, <2>4, <2>5
<1> QED BY <1>2, <1>3

-----------------------------------------------------------------------------
(* The invariant is inductive.                                              *)
LEMMA DtmInvStep == DtmInv /\ [Next]_vars => DtmInv'
BY CoreStep, StatePreparedStep, OutcomeStep, LateCommandsStep, AnswerHoldsStep DEF DtmInv

\* The invariant holds when the coordinator and the segments have started.
LEMMA DtmInvInit == Init => DtmInv
<1> SUFFICES ASSUME Init PROVE DtmInv
  OBVIOUS
<1>1. LogInv
  BY LogInitInv DEF Init
<1>2. TypeOK
  <2>1. LogTypeOK
    BY <1>1 DEF LogInv
  <2>2. dtmStarted \in BOOLEAN /\ recFailed \in BOOLEAN
    BY Zenon DEF Init
  <2>3. "NONE" \in DtxState /\ "LOCAL_ONLY" \in QEContext /\ "none" \in LocalState
    BY DEF DtxState, QEContext, LocalState
  <2> QED BY <2>1, <2>2, <2>3 DEF Init, TypeOK
<1>3. \A g \in Gxid : ~ HasCommit(g) /\ ~ HasForget(g) /\ ~ Durable(g)
  BY DEF Init, LogInit, HasCommit, HasForget, Durable
<1>4. delayChkpt = {} /\ includeInCkpt = {} /\ shmCommitted = {} /\ up
  BY DEF Init, LogInit
<1>5. RecoveryOrder
  BY <1>4 DEF Init, RecoveryOrder
<1>6. Running
  BY DEF Init, Running
<1>7. StateLogged
  BY <1>3, <1>4 DEF Init, StateLogged, Committing, Forgetting
<1>8. StatePrepared
  BY <1>3 DEF Init, StatePrepared
<1>9. Outcome /\ AnswerHolds
  BY <1>3 DEF Init, Outcome, AnswerHolds
<1>10. LiveCommands /\ PendingSent /\ LateCommands
  BY DEF Init, LiveCommands, PendingSent, LateCommands
<1> QED BY <1>1, <1>2, <1>5, <1>6, <1>7, <1>8, <1>9, <1>10 DEF DtmInv

(***************************************************************************)
(* What a backend's state says of the log, of the segments and of the      *)
(* commands left in QEs is true in every reachable state.                  *)
(***************************************************************************)
THEOREM DtmInvariance == Spec => []DtmInv
BY DtmInvInit, DtmInvStep, PTL DEF Spec

(***************************************************************************)
(* No two segments that wrote for a transaction end it in different ways.  *)
(***************************************************************************)
THEOREM AtomicCommitment == Spec => []Atomicity
<1>1. DtmInv => Atomicity
  <2> SUFFICES ASSUME DtmInv, NEW g \in Gxid, NEW s \in wrote[g], NEW t \in wrote[g],
                      local[g][s] = "committed", local[g][t] = "aborted"
               PROVE  FALSE
    BY DEF Atomicity
  <2>1. s \in Segment /\ wrote[g] \subseteq dtxSegments[g]
    BY DEF DtmInv, TypeOK, Running
  <2>2. CASE g \in onePhase
    BY <2>2 DEF DtmInv, Outcome
  <2>3. CASE g \notin onePhase
    <3>1. HasCommit(g)
      BY <2>1, <2>3 DEF DtmInv, Outcome, Durable, HasCommit
    <3> QED BY <2>1, <3>1 DEF DtmInv, StatePrepared
  <2> QED BY <2>2, <2>3
<1> QED BY <1>1, DtmInvariance, PTL

(***************************************************************************)
(* What the client was told holds.                                         *)
(***************************************************************************)
THEOREM AnswerAlwaysHolds == Spec => []AnswerHolds
<1>1. DtmInv => AnswerHolds
  BY DEF DtmInv
<1> QED BY <1>1, DtmInvariance, PTL

(***************************************************************************)
(* No rollback command, however late, meets a prepared part of a           *)
(* transaction whose commit record is in the log.                          *)
(***************************************************************************)
THEOREM CommittedNeverAborted == Spec => []NoAbortOfCommitted
<1>1. DtmInv => NoAbortOfCommitted
  <2> SUFFICES ASSUME DtmInv, NEW m \in msgs,
                      m.cmd \in AbortCmd \cup {"ABORT_SOME_PREPARED", "ABORT_NO_PREPARED"},
                      HasCommit(m.gxid)
               PROVE  local[m.gxid][m.seg] # "prepared"
    BY DEF NoAbortOfCommitted
  <2>1. m.gxid \in Gxid /\ m.seg \in Segment
    BY DEF DtmInv, TypeOK, Message
  <2>2. AllCommitted(m.gxid)
    BY DEF DtmInv, LateCommands, RollbackCmd
  <2>3. m.seg \notin dtxSegments[m.gxid] => local[m.gxid][m.seg] = "none"
    BY <2>1 DEF DtmInv, Outcome
  <2> QED BY <2>2, <2>3 DEF AllCommitted
<1> QED BY <1>1, DtmInvariance, PTL

(***************************************************************************)
(* A transaction whose commit record is in the log is in the array of      *)
(* running transactions until all its segments have committed.             *)
(***************************************************************************)
THEOREM CommittedStaysInProgress == Spec => []InProgressUntilCommitted
<1>1. DtmInv => InProgressUntilCommitted
  <2> SUFFICES ASSUME DtmInv, dtmStarted, NEW g \in Gxid, HasCommit(g), g \notin procArray
               PROVE  \A s \in dtxSegments[g] : local[g][s] = "committed"
    BY DEF InProgressUntilCommitted
  <2>1. dtxState[g] = "NONE"
    BY DEF DtmInv, Running
  <2>2. up /\ shmCommitted = {}
    BY DEF DtmInv, RecoveryOrder
  <2>3. g \notin includeInCkpt /\ g \notin delayChkpt
    BY <2>1 DEF DtmInv, StateLogged, Committing
  <2>4. HasForget(g)
    BY <2>2, <2>3 DEF DtmInv, LogInv, PendingCommitKept
  <2> QED BY <2>4 DEF DtmInv, StatePrepared, AllCommitted
<1> QED BY <1>1, DtmInvariance, PTL

-----------------------------------------------------------------------------
(* The distributed transaction manager implements AtomicCommit: with the    *)
(* invariant above, every step maps to a step of AtomicCommit or leaves the *)
(* mapped state unchanged.                                                  *)

\* A step of AtomicCommit, or none.
ACStep == AC!ACNext \/ (part' = part /\ decided' = decided /\ told' = told)

\* The step that the invariant gives is a step or a stutter of AtomicCommit.
LEMMA ACStepMaps == ACStep => [AC!ACNext]_(AC!acVars)
BY DEF ACStep, AC!acVars

(* The mapped part of a transaction on one segment.                         *)
LEMMA PartOf ==
    ASSUME NEW g \in Gxid, NEW s \in Segment
    PROVE  /\ part[g][s] = IF s \notin wrote[g] THEN "none"
                           ELSE IF local[g][s] = "active" THEN "working" ELSE local[g][s]
           /\ part'[g][s] = IF s \notin wrote'[g] THEN "none"
                            ELSE IF local'[g][s] = "active" THEN "working" ELSE local'[g][s]
BY DEF part

(* The mapped state changes in one place.                                   *)
LEMMA PartChange ==
    ASSUME NEW h \in Gxid, NEW t \in Segment, NEW v,
           \A g \in Gxid, s \in Segment :
              part'[g][s] = IF g = h /\ s = t THEN v ELSE part[g][s]
    PROVE  part' = [part EXCEPT ![h][t] = v]
<1> DEFINE F == [part EXCEPT ![h] = [part[h] EXCEPT ![t] = v]]
<1>1. /\ part' = [g \in Gxid |-> part'[g]] /\ part = [g \in Gxid |-> part[g]]
      /\ \A g \in Gxid : /\ part'[g] = [s \in Segment |-> part'[g][s]]
                         /\ part[g] = [s \in Segment |-> part[g][s]]
  BY DEF part
<1>2. \A g \in Gxid : part'[g] = F[g]
  <2> SUFFICES ASSUME NEW g \in Gxid PROVE part'[g] = F[g]
    OBVIOUS
  <2>1. CASE g = h
    BY <1>1, <2>1
  <2>2. CASE g # h
    BY <1>1, <2>2
  <2> QED BY <2>1, <2>2
<1> QED BY <1>1, <1>2

(* What is decided is in the log, and prepared or committed by its writers. *)
LEMMA DecidedFacts ==
    ASSUME DtmInv, NEW g \in Gxid
    PROVE  /\ g \in decided <=> Durable(g)
           /\ g \in decided => HasCommit(g)
           /\ HasCommit(g) => \A s \in wrote[g] : local[g][s] \in {"prepared", "committed"}
           /\ wrote[g] \subseteq Segment /\ wrote[g] \subseteq dtxSegments[g]
BY DEF decided, Durable, HasCommit, DtmInv, TypeOK, Running, StatePrepared

(* A commit record that is not flushed yet belongs to a running backend.    *)
LEMMA UndecidedRuns ==
    ASSUME DtmInv, NEW g \in Gxid, HasCommit(g), ~ Durable(g)
    PROVE  dtxState[g] # "NONE"
<1>1. ~ HasForget(g)
  BY DEF DtmInv, StateLogged
<1>2. up
  <2> SUFFICES ASSUME ~ up PROVE FALSE
    OBVIOUS
  <2>1. flushLsn = insertLsn /\ \A r \in wal : r.lsn <= insertLsn
    BY DEF DtmInv, LogInv, LsnOrder
  <2> QED BY <2>1 DEF HasCommit, Durable
<1>3. g \in includeInCkpt \/ g \in delayChkpt
  BY <1>1, <1>2 DEF DtmInv, LogInv, PendingCommitKept, MemoryLogged
<1> QED BY <1>3 DEF DtmInv, StateLogged, Committing

(* Steps that touch neither the segments nor the answers: at most the log   *)
(* is flushed, which decides the transactions whose commit record it holds. *)
LEMMA LogDecides ==
    ASSUME DtmInv, DtmInv', [Next]_vars, UNCHANGED <<local, wrote, told>>
    PROVE  ACStep
<1> DEFINE G == decided' \ decided
<1>1. part' = part
  BY DEF part
<1>2. decided \subseteq decided' /\ decided' \subseteq Gxid
  BY Lasting DEF decided
<1>3. CASE G = {}
  BY <1>1, <1>2, <1>3 DEF ACStep
<1>4. CASE G # {}
  <2>1. ASSUME NEW g \in G
        PROVE  /\ g \in Gxid /\ g \notin decided /\ told[g] = "none"
               /\ \A s \in Segment : part[g][s] \in {"none", "prepared"}
    <3>1. g \in Gxid /\ g \notin decided
      BY <1>2
    <3>2. Durable(g)' /\ HasCommit(g)' /\ ~ Durable(g)
      BY <3>1 DEF decided, Durable, HasCommit
    <3>3. dtxState[g] # "NONE"
      <4>1. CASE HasCommit(g)
        BY <3>1, <3>2, <4>1, UndecidedRuns
      <4>2. CASE ~ HasCommit(g)
        BY <3>1, <3>2, <4>2, Lasting
      <4> QED BY <4>1, <4>2
    <3>4. told[g] = "none"
      BY <3>1, <3>3 DEF DtmInv, Running
    <3>5. \A s \in wrote[g] : local[g][s] \in {"prepared", "committed"}
      BY <3>1, <3>2 DEF DtmInv, StatePrepared, Running
    <3>6. g \notin onePhase'
      BY <3>1, <3>2 DEF DtmInv, Outcome
    <3>7. \A s \in wrote[g] : local[g][s] = "prepared"
      <4>1. g \notin onePhase
        BY <3>1, <3>6, Lasting
      <4> QED BY <3>1, <3>2, <3>5, <4>1 DEF DtmInv, Outcome, TypeOK
    <3> QED BY <3>1, <3>4, <3>7, PartOf
  <2>2. decided' = decided \cup G /\ G \in SUBSET Gxid
    BY <1>2
  <2>3. AC!Decide(G)
    BY <1>1, <1>4, <2>1, <2>2 DEF AC!Decide
  <2> QED BY <2>2, <2>3 DEF ACStep, AC!ACNext
<1> QED BY <1>3, <1>4

(* A QE ends or prepares one part of a transaction.                         *)
LEMMA PartMoves ==
    ASSUME DtmInv, UNCHANGED <<wrote, told>>, UNCHANGED logVars,
           NEW h \in Gxid, NEW t \in Segment, NEW new \in LocalState,
           \A g \in Gxid, s \in Segment :
              local'[g][s] = IF g = h /\ s = t THEN new ELSE local[g][s],
           \/ new = local[h][t]
           \/ local[h][t] = "active" /\ new = "aborted"
           \/ \E m \in msgs : /\ m.gxid = h /\ m.seg = t
                              /\ \E ok \in BOOLEAN : QeMove(m, local[h][t], new, ok)
    PROVE  ACStep
<1>0. decided' = decided
  BY LogUnchanged DEF decided
<1>d. /\ h \in decided <=> Durable(h)
      /\ h \in decided => HasCommit(h)
      /\ HasCommit(h) => \A s \in wrote[h] : local[h][s] \in {"prepared", "committed"}
      /\ wrote[h] \subseteq Segment /\ wrote[h] \subseteq dtxSegments[h]
  BY DecidedFacts
<1>1. CASE t \notin wrote[h] \/ new = local[h][t]
  <2>1. \A g \in Gxid, s \in Segment : part'[g][s] = part[g][s]
    BY <1>1, PartOf
  <2>2. part' = part
    BY <2>1 DEF part
  <2> QED BY <1>0, <2>2 DEF ACStep
<1>2. CASE t \in wrote[h] /\ new # local[h][t]
  <2> DEFINE v == IF new = "active" THEN "working" ELSE new
  <2>1. \A g \in Gxid, s \in Segment : part'[g][s] = IF g = h /\ s = t THEN v ELSE part[g][s]
    BY <1>2, PartOf
  <2>2. part' = [part EXCEPT ![h][t] = v]
    BY <2>1, PartChange
  <2>3. part[h][t] = IF local[h][t] = "active" THEN "working" ELSE local[h][t]
    BY <1>2, PartOf
  <2>a. ASSUME new = "aborted", local[h][t] \in {"active", "prepared"}, h \notin decided PROVE ACStep
    <3> DEFINE P == {<<h, t>>}
    <3>1. P \in SUBSET (Gxid \X Segment) /\ P # {}
      OBVIOUS
    <3>2. \A p \in P : p[1] \notin decided /\ part[p[1]][p[2]] \in {"working", "prepared"}
      BY <2>a, <2>3
    <3>3. part' = [g \in Gxid |-> [s \in Segment |-> IF <<g, s>> \in P THEN "aborted" ELSE part[g][s]]]
      <4>1. \A g \in Gxid, s \in Segment : part'[g][s] = IF <<g, s>> \in P THEN "aborted" ELSE part[g][s]
        BY <2>1, <2>a
      <4>2. part' = [g \in Gxid |-> [s \in Segment |-> part'[g][s]]]
        BY DEF part
      <4> HIDE DEF P
      <4> QED BY <4>1, <4>2
    <3>4. AC!Abort(P)
      BY <1>0, <3>1, <3>2, <3>3 DEF AC!Abort
    <3> QED BY <3>1, <3>4 DEF ACStep, AC!ACNext
  <2>4. CASE local[h][t] = "active" /\ new = "aborted"
    <3>1. h \notin decided
      BY <1>2, <1>d, <2>4
    <3> QED BY <2>4, <2>a, <3>1
  <2>5. ASSUME NEW m \in msgs, m.gxid = h, m.seg = t, NEW ok \in BOOLEAN, QeMove(m, local[h][t], new, ok)
        PROVE  ACStep
    <3>1. /\ m.cmd \in CommitCmd => Durable(h)
          /\ m.cmd = "COMMIT_ONEPHASE" => h \in onePhase
          /\ m.cmd \in RollbackCmd /\ HasCommit(h) => AllCommitted(h)
      BY <2>5 DEF DtmInv, LateCommands
    <3>2. CASE local[h][t] = "active" /\ new = "prepared"
      <4>1. AC!Prepare(h, t)
        BY <1>0, <2>2, <2>3, <3>2 DEF AC!Prepare
      <4> QED BY <4>1 DEF ACStep, AC!ACNext
    <3>3. CASE local[h][t] = "active" /\ new = "committed" /\ m.cmd = "COMMIT_ONEPHASE"
      <4>1. \A s \in wrote[h] : s = t
        BY <1>2, <3>1, <3>3 DEF DtmInv, Outcome
      <4>2. \A s \in Segment \ {t} : part[h][s] = "none"
        BY <4>1, PartOf
      <4>3. AC!CommitOnePhase(h, t)
        BY <1>0, <2>2, <2>3, <3>3, <4>2 DEF AC!CommitOnePhase
      <4> QED BY <4>3 DEF ACStep, AC!ACNext
    <3>4. CASE local[h][t] = "prepared" /\ new = "committed" /\ m.cmd \in CommitCmd
      <4>1. h \in decided
        BY <1>d, <3>1, <3>4
      <4>2. AC!Commit(h, t)
        BY <1>0, <2>2, <2>3, <3>4, <4>1 DEF AC!Commit
      <4> QED BY <4>2 DEF ACStep, AC!ACNext
    <3>5. CASE local[h][t] = "prepared" /\ new = "aborted" /\ m.cmd \in RollbackCmd
      <4>1. h \notin decided
        BY <1>2, <1>d, <3>1, <3>5 DEF AllCommitted
      <4> QED BY <2>a, <3>5, <4>1
    <3> QED BY <1>2, <2>4, <2>5, <3>2, <3>3, <3>4, <3>5 DEF QeMove
  <2> QED BY <1>2, <2>4, <2>5
<1> QED BY <1>1, <1>2

(* QEs.                                                                     *)
LEMMA QeRefines ==
    ASSUME DtmInv, DtmInv', [Next]_vars, NEW g \in Gxid, NEW s \in Segment, QeRuns(g, s)
    PROVE  ACStep
<1>t. TypeOK
  BY DEF DtmInv
<1>1. ASSUME NEW m \in msgs, performDtxProtocolCommand(m) PROVE ACStep
  <2>0. m.gxid \in Gxid /\ m.seg \in Segment
    BY <1>t DEF TypeOK, Message
  <2>1. PICK ok \in BOOLEAN, context \in QEContext, new \in LocalState :
            /\ Reply(m, ok, context)
            /\ QeMove(m, local[m.gxid][m.seg], new, ok)
            /\ \A h \in Gxid, t \in Segment :
                  local'[h][t] = IF h = m.gxid /\ t = m.seg THEN new ELSE local[h][t]
    BY <1>1, <1>t, PerformFacts
  <2>2. UNCHANGED <<wrote, told>> /\ UNCHANGED logVars
    BY <2>1 DEF Reply
  <2> QED BY <2>0, <2>1, <2>2, PartMoves
<1>2. ASSUME NEW m \in msgs, AbandonCommand(m) PROVE ACStep
  <2>1. UNCHANGED <<local, wrote, told>>
    BY <1>2 DEF AbandonCommand, qdVars
  <2> QED BY <2>1, LogDecides
<1>3. CASE QeExit(g, s)
  <2>1. /\ local' = [local EXCEPT ![g] = [local[g] EXCEPT ![s] = "aborted"]] /\ local[g][s] = "active"
        /\ UNCHANGED <<wrote, told>> /\ UNCHANGED logVars
    BY <1>3 DEF QeExit, qdVars
  <2>2. local \in [Gxid -> [Segment -> LocalState]]
    BY <1>t DEF TypeOK
  <2>3. \A h \in Gxid, t \in Segment : local'[h][t] = IF h = g /\ t = s THEN "aborted" ELSE local[h][t]
    BY <2>1, <2>2
  <2>4. "aborted" \in LocalState
    BY DEF LocalState
  <2> QED BY <2>1, <2>3, <2>4, PartMoves
<1> QED BY <1>1, <1>2, <1>3 DEF QeRuns

(* The restart of a segment.                                                *)
LEMMA RestartRefines ==
    ASSUME DtmInv, NEW s \in Segment, SegmentRestart(s)
    PROVE  ACStep
<1> DEFINE P == {p \in Gxid \X Segment : p[2] = s /\ s \in wrote[p[1]] /\ local[p[1]][s] = "active"}
<1>t. TypeOK
  BY DEF DtmInv
<1>0. UNCHANGED <<wrote, told>> /\ decided' = decided
  <2>1. UNCHANGED <<wrote, told>> /\ UNCHANGED logVars
    BY DEF SegmentRestart
  <2> QED BY <2>1, LogUnchanged DEF decided
<1>1. ASSUME NEW g \in Gxid, NEW t \in Segment
      PROVE  part'[g][t] = IF <<g, t>> \in P THEN "aborted" ELSE part[g][t]
  <2>1. local'[g] = [local[g] EXCEPT ![s] = IF @ = "active" THEN "aborted" ELSE @]
    BY DEF SegmentRestart
  <2>2. local[g] \in [Segment -> LocalState]
    BY <1>t DEF TypeOK
  <2>3. local'[g][t] = IF t = s /\ local[g][s] = "active" THEN "aborted" ELSE local[g][t]
    BY <2>1, <2>2
  <2>4. <<g, t>> \in P <=> t = s /\ s \in wrote[g] /\ local[g][s] = "active"
    OBVIOUS
  <2> HIDE DEF P
  <2> QED BY <1>0, <2>3, <2>4, PartOf
<1>2. part' = [g \in Gxid |-> [t \in Segment |-> IF <<g, t>> \in P THEN "aborted" ELSE part[g][t]]]
  <2>1. part' = [g \in Gxid |-> [t \in Segment |-> part'[g][t]]]
    BY DEF part
  <2> HIDE DEF P
  <2> QED BY <1>1, <2>1
<1>3. ASSUME NEW p \in P PROVE p[1] \notin decided /\ part[p[1]][p[2]] \in {"working", "prepared"}
  <2>1. p[1] \in Gxid /\ p[2] = s /\ s \in wrote[p[1]] /\ local[p[1]][s] = "active"
    OBVIOUS
  <2>2. part[p[1]][s] = "working"
    BY <2>1, PartOf
  <2>3. p[1] \notin decided
    BY <2>1, DecidedFacts
  <2> QED BY <2>1, <2>2, <2>3
<1>4. CASE P = {}
  <2> HIDE DEF P
  <2>1. \A g \in Gxid, t \in Segment : part'[g][t] = part[g][t]
    BY <1>1, <1>4
  <2>2. part' = part
    BY <2>1 DEF part
  <2> QED BY <1>0, <2>2 DEF ACStep
<1>5. CASE P # {}
  <2>1. P \in SUBSET (Gxid \X Segment)
    OBVIOUS
  <2> HIDE DEF P
  <2>2. AC!Abort(P)
    BY <1>0, <1>2, <1>3, <1>5 DEF AC!Abort
  <2> QED BY <2>1, <2>2 DEF ACStep, AC!ACNext
<1> QED BY <1>4, <1>5

(* Backends.                                                                *)
LEMMA BackendRefines ==
    ASSUME DtmInv, DtmInv', [Next]_vars, NEW g \in Gxid, Backend(g)
    PROVE  ACStep
<1>t. TypeOK /\ TypeOK'
  BY DEF DtmInv
<1>1. ASSUME NEW s \in Segment, NEW writes \in BOOLEAN, addToGxactDtxSegments(g, s, writes)
      PROVE  ACStep
  <2>1. /\ local' = [local EXCEPT ![g] = [local[g] EXCEPT ![s] = "active"]]
        /\ wrote' = (IF writes THEN [wrote EXCEPT ![g] = @ \cup {s}] ELSE wrote)
        /\ UNCHANGED logVars /\ told' = told
        /\ dtxState[g] = "ACTIVE_DISTRIBUTED"
        /\ s \notin dtxSegments[g] \/ (writes /\ s \notin wrote[g])
    BY <1>1 DEF addToGxactDtxSegments
  <2>2. decided' = decided
    BY <2>1, LogUnchanged DEF decided
  <2>3. s \notin wrote[g]
    BY <2>1 DEF DtmInv, Running
  <2>4. /\ local \in [Gxid -> [Segment -> LocalState]] /\ wrote \in [Gxid -> SUBSET Segment]
    BY <1>t DEF TypeOK
  <2>5. \A h \in Gxid, t \in Segment : local'[h][t] = IF h = g /\ t = s THEN "active" ELSE local[h][t]
    BY <2>1, <2>4
  <2>6. CASE ~ writes
    <3>1. wrote' = wrote
      BY <2>1, <2>6
    <3>2. \A h \in Gxid, t \in Segment : part'[h][t] = part[h][t]
      BY <2>3, <2>5, <3>1, PartOf
    <3>3. part' = part
      BY <3>2 DEF part
    <3> QED BY <2>1, <2>2, <3>3 DEF ACStep
  <2>7. CASE writes
    <3>1. \A h \in Gxid : wrote'[h] = IF h = g THEN wrote[g] \cup {s} ELSE wrote[h]
      BY <2>1, <2>4, <2>7
    <3>2. \A h \in Gxid, t \in Segment : part'[h][t] = IF h = g /\ t = s THEN "working" ELSE part[h][t]
      BY <2>5, <3>1, PartOf
    <3>3. part' = [part EXCEPT ![g][s] = "working"]
      BY <3>2, PartChange
    <3>4. told[g] = "none"
      BY <2>1 DEF DtmInv, Running
    <3>5. \A t \in Segment : local[g][t] \in {"none", "active", "aborted"}
      BY <2>1, <2>4 DEF DtmInv, StatePrepared, LocalState
    <3>6. \A t \in Segment : part[g][t] \in {"none", "working", "aborted"}
      BY <3>5, PartOf
    <3>7. part[g][s] = "none"
      BY <2>3, PartOf
    <3>8. AC!Work(g, s)
      BY <2>1, <2>2, <3>3, <3>4, <3>6, <3>7 DEF AC!Work
    <3> QED BY <3>8 DEF ACStep, AC!ACNext
  <2> QED BY <2>6, <2>7
<1>2. ASSUME NEW answer \in {"commit", "abort"}, EndDtx(g, answer), UNCHANGED <<local, wrote>>,
             UNCHANGED logVars, dtxState[g] # "NONE", answer = "abort" => dtxState[g] \in Uncommitted
      PROVE  ACStep
  <2>1. told' = [told EXCEPT ![g] = answer] /\ told'[g] = answer
    BY <1>2, <1>t DEF EndDtx, TypeOK
  <2>2. told[g] = "none"
    BY <1>2 DEF DtmInv, Running
  <2>3. part' = part /\ decided' = decided
    BY <1>2, LogUnchanged DEF part, decided
  <2>4. CASE answer = "commit"
    <3>1. \A s \in wrote[g] : local[g][s] = "committed"
      BY <1>2, <2>1, <2>4 DEF DtmInv, AnswerHolds
    <3>2. \A s \in Segment : part[g][s] \in {"none", "committed"}
      BY <3>1, PartOf
    <3>3. AC!AnswerCommit(g)
      BY <2>1, <2>2, <2>3, <2>4, <3>2 DEF AC!AnswerCommit
    <3> QED BY <3>3 DEF ACStep, AC!ACNext
  <2>5. CASE answer = "abort"
    <3>1. g \notin decided
      BY <1>2, <2>5, DecidedFacts DEF DtmInv, StateLogged, Uncommitted
    <3>2. AC!AnswerAbort(g)
      BY <2>1, <2>2, <2>3, <2>5, <3>1 DEF AC!AnswerAbort
    <3> QED BY <3>2 DEF ACStep, AC!ACNext
  <2> QED BY <2>4, <2>5
<1>3. CASE EndOnePhase(g) \/ EndTwoPhase(g)
  <2>1. /\ EndDtx(g, "commit") /\ UNCHANGED <<local, wrote>> /\ UNCHANGED logVars
        /\ dtxState[g] # "NONE"
    BY <1>3 DEF EndOnePhase, EndTwoPhase, segVars
  <2> QED BY <1>2, <2>1
<1>4. CASE RollbackOmitted(g) \/ EndAbort(g)
  <2>1. /\ EndDtx(g, "abort") /\ UNCHANGED <<local, wrote>> /\ UNCHANGED logVars
    BY <1>4 DEF RollbackOmitted, EndAbort
  <2>2. dtxState[g] \in Uncommitted /\ dtxState[g] # "NONE"
    BY <1>4 DEF RollbackOmitted, EndAbort, Uncommitted, Committing, DtxState
  <2> QED BY <1>2, <2>1, <2>2
<1>5. CASE QdExit(g)
  <2>1. UNCHANGED <<local, wrote, told>>
    BY <1>5, <1>t DEF QdExit, EndDtx, TypeOK
  <2> QED BY <2>1, LogDecides
<1>6. CASE \/ currentDtxActivate(g) \/ doNotifyingAbort(g) \/ retryAbortPrepared(g)
           \/ \E xid \in BOOLEAN : doNotifyingOnePhaseCommit(g, xid) \/ doPrepareTransaction(g, xid)
           \/ PrepareSucceeded(g) \/ RecordCommit(g) \/ doNotifyingCommitPrepared(g)
           \/ RetryCommitPrepared(g) \/ doInsertForgetCommitted(g)
  <2>1. UNCHANGED <<local, wrote, told>>
    BY <1>6 DEF currentDtxActivate, doNotifyingAbort, retryAbortPrepared, doNotifyingOnePhaseCommit,
       doPrepareTransaction, PrepareSucceeded, RecordCommit, doNotifyingCommitPrepared,
       RetryCommitPrepared, doInsertForgetCommitted, segVars
  <2> QED BY <2>1, LogDecides
<1> QED BY <1>1, <1>3, <1>4, <1>5, <1>6 DEF Backend, User, QdCommits, QdAborts

(* Every step.                                                              *)
LEMMA StepRefines == DtmInv /\ DtmInv' /\ [Next]_vars => [AC!ACNext]_(AC!acVars)
<1> SUFFICES ASSUME DtmInv, DtmInv', [Next]_vars PROVE ACStep
  BY ACStepMaps
<1>1. ASSUME NEW g \in Gxid, Backend(g) PROVE ACStep
  BY <1>1, BackendRefines
<1>2. ASSUME NEW g \in Gxid, NEW s \in Segment, QeRuns(g, s) PROVE ACStep
  BY <1>2, QeRefines
<1>3. ASSUME NEW s \in Segment, SegmentRestart(s) PROVE ACStep
  BY <1>3, RestartRefines
<1>4. CASE RecoveryProcess
  <2>1. UNCHANGED <<local, wrote, told>>
    BY <1>4 DEF RecoveryProcess, RecoveredCommit, RecoveryFatal, CommittedRecovered,
              doNotifyCommittedInDoubt, doAbortInDoubt, SkipInProgress, AbortedInDoubt,
              gatherRMInDoubtTransactions, RoundDone, qdVars, segVars
  <2> QED BY <2>1, LogDecides
<1>5. CASE \/ BackgroundLog \/ GatherFailed \/ CoordinatorStartup \/ CoordinatorCrash \/ UNCHANGED vars
           \/ \E m \in msgs : LoseConnection(m)
  <2>1. UNCHANGED <<local, wrote, told>>
    BY <1>5 DEF BackgroundLog, GatherFailed, CoordinatorStartup, CoordinatorCrash, LoseConnection,
                vars, qdVars, segVars
  <2> QED BY <2>1, LogDecides
<1> QED BY <1>1, <1>2, <1>3, <1>4, <1>5 DEF Next, Backend

(***************************************************************************)
(* The distributed transaction manager implements atomic commitment: what  *)
(* the writing segments hold, what is durably decided and what the clients *)
(* were told change only as AtomicCommit allows.                           *)
(***************************************************************************)
THEOREM RefinesAtomicCommit == Spec => ImplementsAtomicCommit
<1>1. Init => AC!ACInit
  <2> SUFFICES ASSUME Init PROVE AC!ACInit
    OBVIOUS
  <2>1. \A g \in Gxid : ~ Durable(g)
    BY DEF Init, LogInit, Durable
  <2>2. part = [g \in Gxid |-> [s \in Segment |-> "none"]]
    BY DEF Init, part
  <2>3. decided = {} /\ told = [g \in Gxid |-> "none"]
    BY <2>1 DEF Init, decided
  <2> QED BY <2>2, <2>3 DEF AC!ACInit
<1>2. DtmInv /\ DtmInv' /\ [Next]_vars => [AC!ACNext]_(AC!acVars)
  BY StepRefines
<1> QED BY <1>1, <1>2, DtmInvariance, PTL DEF Spec, ImplementsAtomicCommit, AC!ACSpec

-----------------------------------------------------------------------------
(* The contexts of the QEs.                                                 *)

\* How the context of the QE of h on segment t changes when h's own backend does
\* nothing: by an answer that was waited for, or by a loss.
ContextMove(h, t) ==
    \/ qe'[h][t] = qe[h][t] /\ (t \in pending'[h] <=> t \in pending[h])
    \/ /\ qe'[h][t] = "dead"
       /\ \A m \in msgs' : ~ (m.gxid = h /\ m.seg = t /\ m.live /\ m.cmd \notin RecoveryCmd)
    \/ \E m \in msgs \ msgs' :
          /\ m.gxid = h /\ m.seg = t /\ m.live /\ m.cmd \notin RecoveryCmd
          /\ (m.cmd = "PREPARE" /\ h \notin failed') => qe'[h][t] = "PREPARED"

(* A QE that answers PREPARE with success is in the prepared context.       *)
LEMMA PrepareAnswer ==
    ASSUME TypeOK, NEW m \in msgs, performDtxProtocolCommand(m), m.live, m.cmd = "PREPARE",
           m.gxid \notin failed'
    PROVE  qe'[m.gxid][m.seg] = "PREPARED"
<1>0. m.gxid \in Gxid /\ m.seg \in Segment /\ qe \in [Gxid -> [Segment -> QEContext]]
  BY DEF TypeOK, Message
<1>1. performDtxProtocolPrepare(m)
  BY DEF performDtxProtocolCommand, performDtxProtocolCommitOnePhase, AbortOutOfAnyTransaction,
         performDtxProtocolCommitPrepared, performDtxProtocolAbortPrepared, FinishPreparedError,
         CommitCmd, AbortCmd
<1>2. m.cmd \notin RecoveryCmd
  BY DEF RecoveryCmd
<1>3. CASE Reply(m, TRUE, "PREPARED")
  <2>1. qe' = [qe EXCEPT ![m.gxid][m.seg] = "PREPARED"]
    BY <1>2, <1>3 DEF Reply
  <2> QED BY <1>0, <2>1
<1>4. CASE Reply(m, FALSE, "LOCAL_ONLY")
  <2>1. failed' = failed \cup {m.gxid}
    BY <1>2, <1>4 DEF Reply
  <2> QED BY <2>1
<1> QED BY <1>1, <1>3, <1>4 DEF performDtxProtocolPrepare

\* The moves a step of others can make in the context of a QE (qe).
LEMMA ContextMoves ==
    ASSUME TypeOK, TypeOK', LiveCommands, LiveCommands', PendingSent, [Next]_vars, NEW h \in Gxid,
           NEW t \in Segment, ~ Backend(h), ~ CoordinatorCrash
    PROVE  ContextMove(h, t)
<1>t. qe \in [Gxid -> [Segment -> QEContext]] /\ pending \in [Gxid -> SUBSET Segment]
  BY DEF TypeOK
<1>1. ASSUME qe'[h][t] = qe[h][t], t \in pending'[h] <=> t \in pending[h] PROVE ContextMove(h, t)
  BY <1>1 DEF ContextMove
<1>2. ASSUME NEW g \in Gxid, Backend(g) PROVE ContextMove(h, t)
  <2>0. g # h
    BY <1>2
  <2>1. qe'[h] = qe[h]
    BY <1>2, <1>t, <2>0 DEF Backend, User, QdCommits, QdAborts, QdExit,
         currentDtxActivate, addToGxactDtxSegments, doNotifyingOnePhaseCommit, doPrepareTransaction,
         EndOnePhase, PrepareSucceeded, RecordCommit, doNotifyingCommitPrepared, RetryCommitPrepared,
         doInsertForgetCommitted, EndTwoPhase, Dispatch, DispatchNewGang, ResetAllGangs,
         RollbackOmitted, doNotifyingAbort, retryAbortPrepared, EndAbort, segVars
  <2>2. pending'[h] = pending[h]
    <3>1. dtxSegments'[g] \in SUBSET Segment
      BY DEF TypeOK
    <3>2. ASSUME NEW cmd \in DtxProtocolCommand,
                 Dispatch(g, dtxSegments'[g], cmd) \/ DispatchNewGang(g, dtxSegments'[g], cmd)
          PROVE  pending'[h] = pending[h]
      BY <2>0, <3>1, <3>2, DispatchFacts
    <3> QED BY <1>2, <3>2, BackendSends
  <2> QED BY <1>1, <2>1, <2>2
<1>3. ASSUME NEW g \in Gxid, NEW s \in Segment, QeRuns(g, s) PROVE ContextMove(h, t)
  <2>1. ASSUME NEW m \in msgs, performDtxProtocolCommand(m) PROVE ContextMove(h, t)
    <3>1. PICK ok \in BOOLEAN, context \in QEContext : Reply(m, ok, context)
      BY <2>1, PerformFacts
    <3>2. /\ msgs' = msgs \ {m}
          /\ pending'[h] = IF m.live /\ m.cmd \notin RecoveryCmd /\ h = m.gxid
                           THEN pending[h] \ {m.seg} ELSE pending[h]
      BY <3>1, ReplyFacts
    <3>3. m.gxid \in Gxid /\ m.seg \in Segment
      BY DEF TypeOK, Message
    <3>4. CASE m.live /\ m.cmd \notin RecoveryCmd /\ h = m.gxid /\ t = m.seg
      <4>1. (m.cmd = "PREPARE" /\ h \notin failed') => qe'[h][t] = "PREPARED"
        BY <2>1, <3>4, PrepareAnswer
      <4> QED BY <3>2, <3>4, <4>1 DEF ContextMove
    <3>5. CASE ~ (m.live /\ m.cmd \notin RecoveryCmd /\ h = m.gxid /\ t = m.seg)
      <4>1. \/ qe' = qe
            \/ /\ m.live /\ m.cmd \notin RecoveryCmd
               /\ qe' = [qe EXCEPT ![m.gxid] = [qe[m.gxid] EXCEPT ![m.seg] = context]]
        BY <3>1 DEF Reply
      <4>2. qe'[h][t] = qe[h][t]
        BY <1>t, <3>3, <3>5, <4>1
      <4> QED BY <1>1, <3>2, <3>5, <4>2
    <3> QED BY <3>4, <3>5
  <2>2. CASE QeExit(g, s) \/ (\E n \in msgs : AbandonCommand(n))
    BY <1>1, <2>2 DEF QeExit, AbandonCommand, qdVars
  <2> QED BY <1>3, <2>1, <2>2 DEF QeRuns
<1>4. CASE RecoveryProcess \/ BackgroundLog \/ GatherFailed \/ CoordinatorStartup \/ UNCHANGED vars
  <2>1. UNCHANGED <<pending, qe>>
    BY <1>4 DEF RecoveryProcess, RecoveredCommit, RecoveryFatal, CommittedRecovered,
              doNotifyCommittedInDoubt, doAbortInDoubt, SkipInProgress, AbortedInDoubt,
              gatherRMInDoubtTransactions, RoundDone, qdVars, segVars, BackgroundLog, GatherFailed,
              CoordinatorStartup, vars
  <2> QED BY <1>1, <2>1
<1>5. ASSUME NEW n \in msgs, LoseConnection(n) PROVE ContextMove(h, t)
  <2>0. n.gxid \in Gxid /\ n.seg \in Segment
    BY DEF TypeOK, Message
  <2>1. CASE n.cmd \in RecoveryCmd \/ n.gxid # h \/ n.seg # t
    <3>1. \/ UNCHANGED <<qe, pending>>
          \/ /\ n.cmd \notin RecoveryCmd
             /\ qe' = [qe EXCEPT ![n.gxid] = [qe[n.gxid] EXCEPT ![n.seg] = "dead"]]
             /\ pending' = [pending EXCEPT ![n.gxid] = @ \ {n.seg}]
      BY <1>5 DEF LoseConnection
    <3>2. qe'[h][t] = qe[h][t] /\ (t \in pending'[h] <=> t \in pending[h])
      BY <1>5, <1>t, <2>0, <2>1, <3>1 DEF LoseConnection
    <3> QED BY <1>1, <3>2
  <2>2. CASE n.cmd \notin RecoveryCmd /\ n.gxid = h /\ n.seg = t
    <3>1. /\ qe' = [qe EXCEPT ![h] = [qe[h] EXCEPT ![t] = "dead"]]
          /\ pending' = [pending EXCEPT ![h] = @ \ {t}]
      BY <1>5, <2>2 DEF LoseConnection
    <3>2. qe'[h][t] = "dead" /\ t \notin pending'[h]
      BY <1>t, <3>1
    <3> QED BY <3>2 DEF ContextMove, LiveCommands
  <2> QED BY <2>1, <2>2
<1>6. ASSUME NEW s \in Segment, SegmentRestart(s) PROVE ContextMove(h, t)
  <2> DEFINE hit == {m.gxid : m \in {n \in msgs : n.seg = s /\ n.live /\ n.cmd \notin RecoveryCmd}}
  <2>1. /\ pending'[h] = pending[h] \ {s}
        /\ qe'[h] = [qe[h] EXCEPT ![s] = IF @ = "LOCAL_ONLY" /\ h \notin hit THEN @ ELSE "dead"]
        /\ \A m \in msgs' : m.seg # s
    BY <1>6 DEF SegmentRestart
  <2>2. s \in pending[h] => h \in hit
    BY DEF PendingSent
  <2> HIDE DEF hit
  <2>3. CASE t # s
    BY <1>1, <1>t, <2>1, <2>3
  <2>4. CASE t = s
    <3>1. qe'[h][t] = "dead" \/ (qe'[h][t] = qe[h][t] /\ h \notin hit)
      BY <1>t, <2>1, <2>4
    <3> QED BY <2>1, <2>2, <2>4, <3>1 DEF ContextMove
  <2> QED BY <2>3, <2>4
<1> QED BY <1>2, <1>3, <1>4, <1>5, <1>6 DEF Next, Backend

\* The states in which the first COMMIT_PREPARED or ABORT_PREPARED is waited for.
FirstPhaseTwo == {"NOTIFYING_COMMIT_PREPARED", "NOTIFYING_ABORT_PREPARED"}

(* How a backend comes into the states that GangContext and OwnCommand are  *)
(* about.                                                                   *)
LEMMA BackendEnters ==
    ASSUME DtmInv, DtmInv', NEW h \in Gxid, Backend(h)
    PROVE  /\ dtxState[h] = "NONE" => h \notin used
           /\ dtxState'[h] = "ACTIVE_DISTRIBUTED" =>
                 \/ dtxState[h] = "NONE"
                 \/ \E s \in Segment, writes \in BOOLEAN : addToGxactDtxSegments(h, s, writes)
           /\ dtxState'[h] = "PREPARING" => (h \notin failed' => pending'[h] = dtxSegments'[h])
           /\ dtxState'[h] \in {"PREPARED", "INSERTING_COMMITTED", "INSERTED_COMMITTED"} =>
                 /\ \/ dtxState[h] = "PREPARING" /\ dtxState'[h] = "PREPARED" /\ Succeeded(h)
                    \/ dtxState[h] = "PREPARED" /\ dtxState'[h] # "INSERTED_COMMITTED"
                    \/ dtxState[h] \in {"INSERTING_COMMITTED", "INSERTED_COMMITTED"}
                 /\ UNCHANGED <<segVars, dtxSegments>>
           /\ dtxState'[h] = "NOTIFYING_COMMIT_PREPARED" => dtxState[h] = "INSERTED_COMMITTED"
           /\ dtxState'[h] = "NOTIFYING_ABORT_PREPARED" => dtxState[h] = "PREPARED"
<1>t. /\ dtxState \in [Gxid -> DtxState] /\ pending \in [Gxid -> SUBSET Segment]
      /\ h \notin used => dtxState[h] = "NONE"
  BY DEF DtmInv, TypeOK, Running
<1> USE DEF SetState, EndDtx
<1>1. CASE User(h)
  <2>1. CASE currentDtxActivate(h)
    BY <1>t, <2>1 DEF currentDtxActivate
  <2>2. ASSUME NEW s \in Segment, NEW writes \in BOOLEAN, addToGxactDtxSegments(h, s, writes)
        PROVE  dtxState[h] = "ACTIVE_DISTRIBUTED" /\ dtxState' = dtxState
    BY <2>2 DEF addToGxactDtxSegments
  <2>3. ASSUME NEW xid \in BOOLEAN, doNotifyingOnePhaseCommit(h, xid)
        PROVE  /\ dtxState[h] = "ACTIVE_DISTRIBUTED"
               /\ dtxState'[h] \in {"ONE_PHASE_COMMIT", "NOTIFYING_ONE_PHASE_COMMIT"}
    BY <1>t, <2>3 DEF doNotifyingOnePhaseCommit
  <2>4. ASSUME NEW xid \in BOOLEAN, doPrepareTransaction(h, xid)
        PROVE  /\ dtxState[h] = "ACTIVE_DISTRIBUTED" /\ dtxState'[h] = "PREPARING"
               /\ h \notin failed' => pending'[h] = dtxSegments'[h]
    BY <1>t, <2>4 DEF doPrepareTransaction, Dispatch
  <2> QED BY <1>1, <2>1, <2>2, <2>3, <2>4 DEF User
<1>2. CASE QdCommits(h)
  <2>1. CASE PrepareSucceeded(h)
    BY <1>t, <2>1 DEF PrepareSucceeded
  <2>2. CASE RecordCommit(h)
    <3>1. UNCHANGED <<segVars, dtxSegments>>
      BY <2>2 DEF RecordCommit
    <3>2. \/ dtxState[h] = "PREPARED" /\ dtxState'[h] \in {"PREPARED", "INSERTING_COMMITTED"}
          \/ /\ dtxState[h] \in {"INSERTING_COMMITTED", "INSERTED_COMMITTED"}
             /\ dtxState'[h] = "INSERTED_COMMITTED"
      BY <1>t, <2>2 DEF RecordCommit
    <3> QED BY <3>1, <3>2
  <2>3. CASE EndOnePhase(h) \/ EndTwoPhase(h)
    BY <1>t, <2>3 DEF EndOnePhase, EndTwoPhase
  <2>4. CASE doNotifyingCommitPrepared(h) \/ RetryCommitPrepared(h) \/ doInsertForgetCommitted(h)
    BY <1>t, <2>4 DEF doNotifyingCommitPrepared, RetryCommitPrepared, doInsertForgetCommitted
  <2> QED BY <1>2, <2>1, <2>2, <2>3, <2>4 DEF QdCommits
<1>3. CASE QdAborts(h) \/ QdExit(h)
  <2>1. CASE RollbackOmitted(h) \/ QdExit(h) \/ EndAbort(h)
    BY <1>t, <2>1 DEF RollbackOmitted, QdExit, EndAbort
  <2>2. CASE doNotifyingAbort(h) \/ retryAbortPrepared(h)
    BY <1>t, <2>2 DEF doNotifyingAbort, retryAbortPrepared
  <2> QED BY <1>3, <2>1, <2>2 DEF QdAborts
<1> QED BY <1>1, <1>2, <1>3 DEF Backend

(* A prepared part stays prepared until its own backend says otherwise.     *)
LEMMA StaysPrepared ==
    ASSUME DtmInv, ContextInv, [Next]_vars, NEW h \in Gxid, NEW t \in Segment, ~ Backend(h),
           local[h][t] = "prepared",
           dtxState[h] \in {"PREPARED", "INSERTING_COMMITTED", "INSERTED_COMMITTED"}
              \cup FirstPhaseTwo,
           dtxState[h] \in FirstPhaseTwo =>
              \E m \in msgs \cap msgs' : /\ m.gxid = h /\ m.seg = t /\ m.live
                                         /\ m.cmd \in {"COMMIT_PREPARED", "ABORT_PREPARED"}
    PROVE  local'[h][t] = "prepared"
<1> SUFFICES ASSUME NEW n \in msgs \ msgs', n.gxid = h, n.seg = t, n.cmd \in CommitCmd \cup RollbackCmd
             PROVE  FALSE
  <2>1. LocalMove(h, t)
    BY LocalMoves DEF DtmInv
  <2> QED BY <2>1 DEF LocalMove
<1>1. /\ n.cmd \in RollbackCmd => dtxState[h] \in Aborting \cup {"NONE"}
      /\ n.cmd \in CommitCmd => Durable(h)
  BY DEF DtmInv, LateCommands
<1>2. n.cmd \in CommitCmd => dtxState[h] \in Committing
  <2>1. Durable(h) => HasCommit(h)
    BY DEF Durable, HasCommit
  <2> QED BY <1>1, <2>1 DEF DtmInv, StateLogged, FirstPhaseTwo
<1>3. OwnCommand(h, n.cmd) /\ LostCommand(n)
  BY DEF ContextInv, OwnCommands
<1>4. dtxState[h] \in FirstPhaseTwo /\ n.cmd \in {"COMMIT_PREPARED", "ABORT_PREPARED"}
  BY <1>1, <1>2, <1>3 DEF OwnCommand, Aborting, Committing, FirstPhaseTwo
<1>5. PICK m \in msgs \cap msgs' : /\ m.gxid = h /\ m.seg = t /\ m.live
                                   /\ m.cmd \in {"COMMIT_PREPARED", "ABORT_PREPARED"}
  BY <1>4
<1>6. qe[h][t] = "PREPARED"
  BY <1>5 DEF ContextInv, ContextAccepted
<1>7. n.live
  BY <1>3, <1>4, <1>6 DEF LostCommand, FirstPhaseTwo
<1>8. m.cmd \notin RecoveryCmd /\ n.cmd \notin RecoveryCmd
  BY <1>4, <1>5 DEF RecoveryCmd
<1>9. m.cmd = n.cmd
  BY <1>5, <1>7, <1>8 DEF DtmInv, LiveCommands, Broadcast
<1>10. m \in Message /\ n \in Message /\ m.live = TRUE /\ n.live = TRUE
  BY <1>5, <1>7 DEF DtmInv, TypeOK, Message
<1> QED BY <1>5, <1>9, <1>10, SameMessage

(* The gang of a backend is in the context its next command needs.          *)
LEMMA GangContextStep ==
    ASSUME DtmInv, DtmInv', ContextInv, [Next]_vars
    PROVE  GangContext'
<1> DEFINE Fits(h, t) ==
        /\ dtxState[h] = "ACTIVE_DISTRIBUTED" => qe[h][t] \in {"WRITER", "dead"}
        /\ (dtxState[h] = "PREPARING" /\ h \notin failed /\ t \notin pending[h]) =>
              qe[h][t] \in {"PREPARED", "dead"}
        /\ dtxState[h] \in {"PREPARED", "INSERTING_COMMITTED", "INSERTED_COMMITTED"} =>
              qe[h][t] \in {"PREPARED", "dead"} /\ local[h][t] = "prepared"
<1> SUFFICES ASSUME NEW h \in Gxid, NEW t \in dtxSegments'[h] PROVE Fits(h, t)'
  BY DEF GangContext
<1>t. TypeOK /\ TypeOK' /\ t \in Segment /\ Running /\ LiveCommands /\ LiveCommands' /\ PendingSent
  BY DEF DtmInv, TypeOK
<1>0. t \in dtxSegments[h] => Fits(h, t)
  BY DEF ContextInv, GangContext
<1>1. CASE CoordinatorCrash
  <2>1. dtxState'[h] = "NONE"
    BY <1>1 DEF CoordinatorCrash
  <2> QED BY <2>1
<1>2. CASE Backend(h)
  <2>1. ASSUME dtxState'[h] = "ACTIVE_DISTRIBUTED" PROVE qe'[h][t] \in {"WRITER", "dead"}
    <3>1. CASE dtxState[h] = "NONE"
      <4>1. h \notin used
        BY <1>2, <3>1, BackendEnters
      <4>2. currentDtxActivate(h)
        BY <1>2, <3>1 DEF Backend, User, QdCommits, QdAborts, QdExit, Rollbackable,
         addToGxactDtxSegments, doNotifyingOnePhaseCommit, doPrepareTransaction,
         EndOnePhase, PrepareSucceeded, RecordCommit, doNotifyingCommitPrepared, RetryCommitPrepared,
         doInsertForgetCommitted, EndTwoPhase,
         RollbackOmitted, doNotifyingAbort, retryAbortPrepared, EndAbort
      <4> QED BY <1>t, <4>1, <4>2 DEF currentDtxActivate, Running
    <3>2. ASSUME NEW s \in Segment, NEW writes \in BOOLEAN, addToGxactDtxSegments(h, s, writes)
          PROVE  qe'[h][t] \in {"WRITER", "dead"}
      <4>1. /\ qe' = [qe EXCEPT ![h] = [qe[h] EXCEPT ![s] = "WRITER"]]
            /\ dtxSegments' = [dtxSegments EXCEPT ![h] = @ \cup {s}]
            /\ \A r \in dtxSegments[h] : qe[h][r] = "WRITER"
        BY <3>2 DEF addToGxactDtxSegments
      <4> QED BY <1>t, <4>1 DEF TypeOK
    <3> QED BY <1>2, <2>1, <3>1, <3>2, BackendEnters
  <2>2. (dtxState'[h] = "PREPARING" /\ h \notin failed') => t \in pending'[h]
    BY <1>2, BackendEnters
  <2>3. ASSUME dtxState'[h] \in {"PREPARED", "INSERTING_COMMITTED", "INSERTED_COMMITTED"}
        PROVE  qe'[h][t] \in {"PREPARED", "dead"} /\ local'[h][t] = "prepared"
    <3>1. /\ \/ dtxState[h] = "PREPARING" /\ Succeeded(h)
             \/ dtxState[h] \in {"PREPARED", "INSERTING_COMMITTED", "INSERTED_COMMITTED"}
          /\ UNCHANGED <<segVars, dtxSegments>>
      BY <1>2, <2>3, BackendEnters
    <3>2. qe' = qe /\ local' = local /\ t \in dtxSegments[h]
      BY <3>1 DEF segVars
    <3>3. CASE dtxState[h] = "PREPARING" /\ Succeeded(h)
      <4>1. h \notin failed /\ pending[h] = {}
        BY <3>3 DEF Succeeded, Answered
      <4>2. local[h][t] = "prepared"
        BY <3>2, <3>3, <4>1 DEF DtmInv, StatePrepared
      <4> QED BY <1>0, <3>2, <3>3, <4>1, <4>2
    <3> QED BY <1>0, <3>1, <3>2, <3>3
  <2> QED BY <2>1, <2>2, <2>3
<1>3. CASE ~ Backend(h) /\ ~ CoordinatorCrash
  <2>1. dtxState'[h] = dtxState[h] /\ dtxSegments'[h] = dtxSegments[h]
    <3>1. CASE UNCHANGED vars
      BY <3>1 DEF vars, qdVars
    <3>2. CASE Next
      BY <1>3, <1>t, <3>2, OtherState DEF SameState
    <3> QED BY <3>1, <3>2
  <2>2. Fits(h, t)
    BY <1>0, <2>1
  <2>3. ContextMove(h, t)
    BY <1>3, <1>t, ContextMoves
  <2> HIDE DEF Fits
  <2>4. CASE dtxState[h] = "ACTIVE_DISTRIBUTED"
    BY <1>t, <2>1, <2>2, <2>3, <2>4 DEF ContextMove, LiveCommands, Broadcast, Fits
  <2>5. CASE dtxState[h] \in {"PREPARED", "INSERTING_COMMITTED", "INSERTED_COMMITTED"}
    <3>1. qe'[h][t] \in {"PREPARED", "dead"}
      BY <1>t, <2>2, <2>3, <2>5 DEF ContextMove, LiveCommands, Broadcast, Fits
    <3>2. local[h][t] = "prepared"
      BY <2>2, <2>5 DEF Fits
    <3>3. local'[h][t] = "prepared"
      BY <1>3, <1>t, <2>5, <3>2, StaysPrepared DEF FirstPhaseTwo
    <3> QED BY <2>1, <2>5, <3>1, <3>3 DEF Fits
  <2>6. CASE dtxState[h] = "PREPARING"
    <3>1. ASSUME h \notin failed', t \notin pending'[h] PROVE qe'[h][t] \in {"PREPARED", "dead"}
      <4>1. h \notin failed
        <5>1. CASE Next
          BY <1>3, <1>t, <3>1, <5>1, AnswerMoves
        <5>2. CASE UNCHANGED vars
          BY <3>1, <5>2 DEF vars, qdVars
        <5> QED BY <5>1, <5>2
      <4>2. CASE qe'[h][t] = qe[h][t] /\ t \notin pending[h]
        BY <2>2, <2>6, <4>1, <4>2 DEF Fits
      <4>3. ASSUME NEW m \in msgs, m.gxid = h, m.live, m.cmd \notin RecoveryCmd
            PROVE  m.cmd = "PREPARE"
        BY <1>t, <2>6, <4>3 DEF LiveCommands, Broadcast
      <4> QED BY <2>3, <3>1, <4>2, <4>3 DEF ContextMove
    <3> QED BY <2>1, <2>6, <3>1 DEF Fits
  <2> QED BY <2>1, <2>4, <2>5, <2>6 DEF Fits
<1> QED BY <1>1, <1>2, <1>3

(* Where a backend sends its first commands from.                           *)
LEMMA BackendStartsCommit ==
    ASSUME TypeOK, NEW h \in Gxid, Backend(h),
           dtxState'[h] \in {"PREPARING", "NOTIFYING_ONE_PHASE_COMMIT"} \cup FirstPhaseTwo
    PROVE  /\ UNCHANGED local /\ dtxSegments'[h] = dtxSegments[h]
           /\ dtxState'[h] \notin FirstPhaseTwo => dtxState[h] = "ACTIVE_DISTRIBUTED"
<1>t. dtxState \in [Gxid -> DtxState]
  BY DEF TypeOK
<1> USE DEF SetState, EndDtx, FirstPhaseTwo
<1>1. CASE User(h)
  BY <1>1, <1>t DEF User, currentDtxActivate, addToGxactDtxSegments, doNotifyingOnePhaseCommit,
                    doPrepareTransaction, segVars
<1>2. CASE QdCommits(h)
  BY <1>2, <1>t DEF QdCommits, EndOnePhase, PrepareSucceeded, RecordCommit, doNotifyingCommitPrepared,
                    RetryCommitPrepared, doInsertForgetCommitted, EndTwoPhase
<1>3. CASE QdAborts(h) \/ QdExit(h)
  BY <1>3, <1>t DEF QdAborts, QdExit, RollbackOmitted, doNotifyingAbort, retryAbortPrepared, EndAbort
<1> QED BY <1>1, <1>2, <1>3 DEF Backend

(* The commands of a transaction go on to be those of its backend's state.  *)
LEMMA OwnCommandStep ==
    ASSUME DtmInv, DtmInv', ContextInv, [Next]_vars, NEW m \in msgs'
    PROVE  OwnCommand(m.gxid, m.cmd)'
<1> DEFINE h == m.gxid
<1>t. TypeOK /\ TypeOK' /\ h \in Gxid /\ Running
  BY DEF DtmInv, TypeOK, Message
<1> HIDE DEF h
<1>1. ASSUME NEW n \in msgs, n.gxid = h, n.cmd = m.cmd PROVE OwnCommand(h, m.cmd)'
  <2>0. /\ OwnCommand(h, m.cmd) /\ h \in used
        /\ m.cmd \in RollbackCmd => dtxState[h] \in Aborting \cup {"NONE"}
        /\ m.cmd \in CommitCmd => Durable(h)
    BY <1>1 DEF ContextInv, OwnCommands, DtmInv, LateCommands
  <2>1. CASE CoordinatorCrash
    <3>1. dtxState'[h] = "NONE"
      BY <1>t, <2>1 DEF CoordinatorCrash
    <3> QED BY <3>1 DEF OwnCommand
  <2>2. CASE ~ Backend(h) /\ ~ CoordinatorCrash
    <3>1. dtxState'[h] = dtxState[h]
      <4>1. CASE UNCHANGED vars
        BY <4>1 DEF vars, qdVars
      <4>2. CASE Next
        BY <1>t, <2>2, <4>2, OtherState DEF SameState
      <4> QED BY <4>1, <4>2
    <3> QED BY <2>0, <3>1 DEF OwnCommand
  <2>3. CASE Backend(h)
    <3>1. dtxState[h] # "NONE"
      BY <1>t, <2>0, <2>3, BackendEnters
    <3>2. m.cmd \in CommitCmd => dtxState[h] \in Committing
      <4>1. Durable(h) => HasCommit(h)
        BY DEF Durable, HasCommit
      <4> QED BY <1>t, <2>0, <3>1, <4>1 DEF DtmInv, StateLogged
    <3>3. m.cmd \notin RecoveryCmd
      BY <2>0, <3>1 DEF OwnCommand
    <3>4. ASSUME dtxState'[h] \in {"INSERTING_COMMITTED", "INSERTED_COMMITTED"}
          PROVE  m.cmd \notin CommitCmd
      <4>1. dtxState[h] \in {"PREPARED", "INSERTING_COMMITTED", "INSERTED_COMMITTED"}
        BY <1>t, <2>3, <3>4, BackendEnters
      <4> QED BY <2>0, <3>2, <4>1 DEF OwnCommand, Committing
    <3>5. dtxState'[h] = "NOTIFYING_COMMIT_PREPARED" => m.cmd \notin CommitCmd
      BY <1>t, <2>0, <2>3, BackendEnters DEF OwnCommand
    <3>6. dtxState'[h] = "NOTIFYING_ABORT_PREPARED" => m.cmd \notin RollbackCmd
      BY <1>t, <2>0, <2>3, BackendEnters DEF Aborting
    <3> QED BY <3>3, <3>4, <3>5, <3>6 DEF OwnCommand
  <2> QED BY <2>1, <2>2, <2>3
<1>2. ASSUME <<dtxState'[h], m.cmd>> \in Broadcast PROVE OwnCommand(h, m.cmd)'
  BY <1>2 DEF OwnCommand, Broadcast, RecoveryCmd, CommitCmd, RollbackCmd, AbortCmd
<1>3. CASE doNotifyCommittedInDoubt(h)
  <2>1. recPc = "commit" /\ dtxState' = dtxState
    BY <1>3 DEF doNotifyCommittedInDoubt, qdVars
  <2>2. ~ dtmStarted
    BY <2>1 DEF DtmInv, RecoveryOrder
  <2>3. dtxState'[h] = "NONE"
    BY <1>t, <2>1, <2>2 DEF Running
  <2> QED BY <2>3 DEF OwnCommand, h
<1>4. CASE doAbortInDoubt(h)
  <2>1. (~ dtmStarted \/ h \notin procArray) /\ dtxState' = dtxState
    BY <1>4 DEF doAbortInDoubt, qdVars
  <2>2. dtxState'[h] = "NONE"
    BY <1>t, <2>1 DEF Running
  <2> QED BY <2>2 DEF OwnCommand, h
<1> QED BY <1>1, <1>2, <1>3, <1>4, <1>t, Origin DEF h

(* A new message was just sent, or is one nobody waits for any more.        *)
LEMMA NewMessage ==
    ASSUME TypeOK, TypeOK', [Next]_vars, ~ CoordinatorCrash, NEW m \in msgs', m \notin msgs
    PROVE  \/ /\ ~ m.live
              /\ m.cmd \notin RecoveryCmd => qe'[m.gxid][m.seg] = "dead"
           \/ m.cmd \in RecoveryCmd
           \/ /\ m.live /\ Backend(m.gxid) /\ <<dtxState'[m.gxid], m.cmd>> \in Broadcast
              /\ m.seg \in dtxSegments'[m.gxid]
              /\ m.cmd \in RetryCmd => qe'[m.gxid][m.seg] = "LOCAL_ONLY"
              /\ m.cmd \notin RetryCmd => qe' = qe /\ qe[m.gxid][m.seg] # "dead"
<1> DEFINE Goal ==
           \/ /\ ~ m.live
              /\ m.cmd \notin RecoveryCmd => qe'[m.gxid][m.seg] = "dead"
           \/ m.cmd \in RecoveryCmd
           \/ /\ m.live /\ Backend(m.gxid) /\ <<dtxState'[m.gxid], m.cmd>> \in Broadcast
              /\ m.seg \in dtxSegments'[m.gxid]
              /\ m.cmd \in RetryCmd => qe'[m.gxid][m.seg] = "LOCAL_ONLY"
              /\ m.cmd \notin RetryCmd => qe' = qe /\ qe[m.gxid][m.seg] # "dead"
<1>1. ASSUME NEW g \in Gxid, Backend(g) PROVE Goal
  <2>1. PICK cmd \in DtxProtocolCommand \ RecoveryCmd :
           /\ IF cmd \in RetryCmd THEN DispatchNewGang(g, dtxSegments'[g], cmd)
                                 ELSE Dispatch(g, dtxSegments'[g], cmd)
           /\ <<dtxState'[g], cmd>> \in Broadcast
    BY <1>1, BackendSends
  <2>2. CASE cmd \notin RetryCmd
    <3>1. m \in Commands(g, {s \in dtxSegments'[g] : qe[g][s] # "dead"}, cmd)
      BY <2>1, <2>2 DEF Dispatch
    <3>2. /\ m.gxid = g /\ m.cmd = cmd /\ m.live = TRUE
          /\ m.seg \in dtxSegments'[g] /\ qe[g][m.seg] # "dead"
      BY <3>1 DEF Commands
    <3>3. qe' = qe
      BY <2>1, <2>2 DEF Dispatch
    <3> QED BY <1>1, <2>1, <2>2, <3>2, <3>3
  <2>3. CASE cmd \in RetryCmd
    <3>1. m \in Commands(g, dtxSegments'[g], cmd)
      BY <2>1, <2>3 DEF DispatchNewGang
    <3>2. m.gxid = g /\ m.cmd = cmd /\ m.live = TRUE /\ m.seg \in dtxSegments'[g]
      BY <3>1 DEF Commands
    <3>3. m.seg \in Segment /\ qe \in [Gxid -> [Segment -> QEContext]]
      BY <3>2 DEF TypeOK
    <3>4. qe'[g][m.seg] = "LOCAL_ONLY"
      BY <2>1, <2>3, <3>3 DEF DispatchNewGang, ResetAllGangs
    <3> QED BY <1>1, <2>1, <2>3, <3>2, <3>4
  <2> QED BY <2>1, <2>2, <2>3
<1>2. ASSUME NEW g \in Gxid, NEW s \in Segment, QeRuns(g, s) PROVE FALSE
  <2>1. ASSUME NEW n \in msgs, performDtxProtocolCommand(n) PROVE FALSE
    <3>1. PICK ok \in BOOLEAN, context \in QEContext : Reply(n, ok, context)
      BY <2>1, PerformFacts
    <3> QED BY <3>1 DEF Reply
  <2>2. CASE QeExit(g, s) \/ (\E n \in msgs : AbandonCommand(n))
    BY <2>2 DEF QeExit, AbandonCommand
  <2> QED BY <1>2, <2>1, <2>2 DEF QeRuns
<1>3. CASE RecoveryProcess
  <2>1. ASSUME NEW g \in Gxid, doNotifyCommittedInDoubt(g) \/ doAbortInDoubt(g)
        PROVE  m.cmd \in RecoveryCmd
    <3>1. PICK cmd \in RecoveryCmd : m \in Commands(g, Segment, cmd)
      BY <2>1 DEF doNotifyCommittedInDoubt, doAbortInDoubt, RecDispatch, RecoveryCmd
    <3> QED BY <3>1 DEF Commands
  <2>2. CASE ~ \E g \in Gxid : doNotifyCommittedInDoubt(g) \/ doAbortInDoubt(g)
    BY <1>3, <2>2 DEF RecoveryProcess, RecoveredCommit, RecoveryFatal, CommittedRecovered,
              SkipInProgress, AbortedInDoubt, gatherRMInDoubtTransactions, RoundDone, segVars
  <2> QED BY <2>1, <2>2
<1>4. CASE BackgroundLog \/ GatherFailed \/ CoordinatorStartup \/ UNCHANGED vars
  BY <1>4 DEF BackgroundLog, GatherFailed, CoordinatorStartup, vars, segVars
<1>5. ASSUME NEW n \in msgs, LoseConnection(n) PROVE Goal
  <2>1. m = [n EXCEPT !.live = FALSE]
    BY <1>5 DEF LoseConnection
  <2>2. n \in Message /\ qe \in [Gxid -> [Segment -> QEContext]]
    BY DEF TypeOK
  <2>3. m.gxid = n.gxid /\ m.seg = n.seg /\ m.cmd = n.cmd /\ m.live = FALSE
        /\ m.gxid \in Gxid /\ m.seg \in Segment
    BY <2>1, <2>2 DEF Message
  <2>4. m.cmd \notin RecoveryCmd => qe' = [qe EXCEPT ![m.gxid][m.seg] = "dead"]
    BY <1>5, <2>3 DEF LoseConnection
  <2>5. m.cmd \notin RecoveryCmd => qe'[m.gxid][m.seg] = "dead"
    BY <2>2, <2>3, <2>4
  <2> QED BY <2>3, <2>5
<1>6. ASSUME NEW s \in Segment, SegmentRestart(s) PROVE FALSE
  BY <1>6 DEF SegmentRestart
<1> QED BY <1>1, <1>2, <1>3, <1>4, <1>5, <1>6 DEF Next, Backend

(* A first command of phase two that nobody waits for is in a lost QE.      *)
LEMMA LostCommandStep ==
    ASSUME DtmInv, DtmInv', ContextInv, [Next]_vars, NEW m \in msgs'
    PROVE  LostCommand(m)'
<1> SUFFICES ASSUME ~ m.live, m.cmd \in {"COMMIT_PREPARED", "ABORT_PREPARED"},
                    dtxState'[m.gxid] \in FirstPhaseTwo
             PROVE  qe'[m.gxid][m.seg] = "dead"
  BY DEF LostCommand, FirstPhaseTwo
<1> DEFINE h == m.gxid
           t == m.seg
<1>t. /\ TypeOK /\ TypeOK' /\ h \in Gxid /\ t \in Segment /\ Running /\ LiveCommands /\ LiveCommands'
      /\ PendingSent /\ m.cmd \notin RecoveryCmd
  BY DEF DtmInv, TypeOK, Message, RecoveryCmd
<1> HIDE DEF h, t
<1>c. ~ CoordinatorCrash
  BY <1>t DEF CoordinatorCrash, FirstPhaseTwo, h
<1>1. CASE m \notin msgs
  BY <1>1, <1>c, <1>t, NewMessage
<1>2. CASE m \in msgs /\ Backend(h)
  <2>1. dtxState[h] \in {"PREPARED", "INSERTED_COMMITTED"}
    BY <1>2, <1>t, BackendEnters DEF FirstPhaseTwo, h
  <2>2. OwnCommand(h, m.cmd)
    BY <1>2 DEF ContextInv, OwnCommands, h
  <2>3. /\ m.cmd = "ABORT_PREPARED" => dtxState[h] \in Aborting \cup {"NONE"}
        /\ m.cmd = "COMMIT_PREPARED" => HasCommit(h)
    BY <1>2 DEF DtmInv, LateCommands, RollbackCmd, AbortCmd, CommitCmd, Durable, HasCommit, h
  <2>4. m.cmd = "COMMIT_PREPARED" /\ dtxState[h] = "INSERTED_COMMITTED"
    BY <1>t, <2>1, <2>3 DEF DtmInv, StateLogged, Committing, Aborting
  <2> QED BY <2>2, <2>4 DEF OwnCommand, CommitCmd
<1>3. CASE m \in msgs /\ ~ Backend(h)
  <2>1. dtxState'[h] = dtxState[h]
    <3>1. CASE UNCHANGED vars
      BY <3>1 DEF vars, qdVars
    <3>2. CASE Next
      BY <1>3, <1>c, <1>t, <3>2, OtherState DEF SameState
    <3> QED BY <3>1, <3>2
  <2>2. qe[h][t] = "dead"
    BY <1>3, <2>1 DEF ContextInv, OwnCommands, LostCommand, FirstPhaseTwo, h, t
  <2>3. ContextMove(h, t)
    BY <1>3, <1>c, <1>t, ContextMoves
  <2>4. ASSUME NEW n \in msgs, n.gxid = h, n.seg = t, n.live, n.cmd \notin RecoveryCmd PROVE FALSE
    <3>1. n.cmd \in {"COMMIT_PREPARED", "ABORT_PREPARED"}
      BY <1>t, <2>1, <2>4 DEF LiveCommands, Broadcast, FirstPhaseTwo, h
    <3> QED BY <2>2, <2>4, <3>1 DEF ContextInv, ContextAccepted
  <2> QED BY <2>2, <2>3, <2>4 DEF ContextMove, h, t
<1> QED BY <1>1, <1>2, <1>3

(* A command that is waited for finds its QE in the context it needs.       *)
LEMMA ContextAcceptedStep ==
    ASSUME DtmInv, DtmInv', ContextInv, [Next]_vars
    PROVE  ContextAccepted'
<1> DEFINE Accepts(m) ==
        /\ m.cmd \in {"PREPARE", "COMMIT_ONEPHASE"} => qe[m.gxid][m.seg] = "WRITER"
        /\ m.cmd \in {"COMMIT_PREPARED", "ABORT_PREPARED"} =>
              qe[m.gxid][m.seg] = "PREPARED" /\ local[m.gxid][m.seg] = "prepared"
        /\ m.cmd \in {"RETRY_COMMIT_PREPARED", "RETRY_ABORT_PREPARED"} =>
              qe[m.gxid][m.seg] = "LOCAL_ONLY"
<1> SUFFICES ASSUME NEW m \in msgs', m.live PROVE Accepts(m)'
  BY DEF ContextAccepted
<1> DEFINE h == m.gxid
           t == m.seg
<1>t. /\ TypeOK /\ TypeOK' /\ h \in Gxid /\ t \in Segment /\ Running /\ LiveCommands /\ LiveCommands'
      /\ PendingSent /\ m.live = TRUE /\ m \in Message
  BY DEF DtmInv, TypeOK, Message
<1>c. ~ CoordinatorCrash
  <2>1. ASSUME NEW n \in msgs, m = [n EXCEPT !.live = FALSE] PROVE FALSE
    BY <1>t, <2>1 DEF TypeOK, Message
  <2> QED BY <2>1 DEF CoordinatorCrash
<1> HIDE DEF h, t
<1>1. CASE m.cmd \in RecoveryCmd
  BY <1>1 DEF RecoveryCmd
<1>2. CASE m \notin msgs /\ m.cmd \notin RecoveryCmd
  <2>1. /\ Backend(h) /\ <<dtxState'[h], m.cmd>> \in Broadcast /\ t \in dtxSegments'[h]
        /\ m.cmd \in RetryCmd => qe'[h][t] = "LOCAL_ONLY"
        /\ m.cmd \notin RetryCmd => qe' = qe /\ qe[h][t] # "dead"
    BY <1>2, <1>c, <1>t, NewMessage DEF h, t
  <2>2. CASE m.cmd \in {"PREPARE", "COMMIT_ONEPHASE"}
    <3>1. dtxState'[h] \in {"PREPARING", "NOTIFYING_ONE_PHASE_COMMIT"}
      BY <2>1, <2>2 DEF Broadcast
    <3>2. dtxState[h] = "ACTIVE_DISTRIBUTED" /\ dtxSegments'[h] = dtxSegments[h]
      BY <1>t, <2>1, <3>1, BackendStartsCommit DEF FirstPhaseTwo
    <3>3. qe'[h][t] = "WRITER"
      BY <1>t, <2>1, <2>2, <3>2 DEF ContextInv, GangContext, RetryCmd
    <3> QED BY <2>2, <3>3 DEF h, t
  <2>3. CASE m.cmd \in {"COMMIT_PREPARED", "ABORT_PREPARED"}
    <3>1. dtxState'[h] \in FirstPhaseTwo
      BY <2>1, <2>3 DEF Broadcast, FirstPhaseTwo
    <3>2. dtxState[h] \in {"PREPARED", "INSERTED_COMMITTED"}
      BY <1>t, <2>1, <3>1, BackendEnters DEF FirstPhaseTwo
    <3>3. dtxSegments'[h] = dtxSegments[h] /\ local' = local
      BY <1>t, <2>1, <3>1, BackendStartsCommit
    <3>4. qe'[h][t] = "PREPARED" /\ local'[h][t] = "prepared"
      BY <1>t, <2>1, <2>3, <3>2, <3>3 DEF ContextInv, GangContext, RetryCmd
    <3> QED BY <2>3, <3>4 DEF h, t
  <2> QED BY <2>1, <2>2, <2>3 DEF h, t, RetryCmd
<1>3. CASE m \in msgs /\ m.cmd \notin RecoveryCmd
  <2>1. <<dtxState[h], m.cmd>> \in Broadcast /\ t \in pending[h]
    BY <1>3, <1>t DEF LiveCommands, h, t
  <2>2. ~ Backend(h)
    BY <1>t, <2>1, BackendWaits
  <2>3. Accepts(m)
    BY <1>3 DEF ContextInv, ContextAccepted
  <2>4. ContextMove(h, t)
    BY <1>c, <1>t, <2>2, ContextMoves
  <2>5. ASSUME NEW n \in msgs \ msgs', n.gxid = h, n.seg = t, n.live, n.cmd \notin RecoveryCmd
        PROVE  FALSE
    <3>1. n.cmd = m.cmd
      BY <1>t, <2>1, <2>5 DEF LiveCommands, Broadcast
    <3>2. n \in Message /\ n.live = TRUE
      BY <1>t, <2>5 DEF TypeOK, Message
    <3> QED BY <1>t, <2>5, <3>1, <3>2, SameMessage DEF h, t
  <2>6. qe'[h][t] = qe[h][t]
    BY <1>3, <2>4, <2>5 DEF ContextMove, h, t
  <2>7. ASSUME m.cmd \in {"COMMIT_PREPARED", "ABORT_PREPARED"} PROVE local'[h][t] = "prepared"
    <3>1. dtxState[h] \in FirstPhaseTwo
      BY <2>1, <2>7 DEF Broadcast, FirstPhaseTwo
    <3>2. local[h][t] = "prepared"
      BY <2>3, <2>7 DEF h, t
    <3>3. \E n \in msgs \cap msgs' : /\ n.gxid = h /\ n.seg = t /\ n.live
                                     /\ n.cmd \in {"COMMIT_PREPARED", "ABORT_PREPARED"}
      BY <1>3, <2>7 DEF h, t
    <3> QED BY <1>t, <2>2, <3>1, <3>2, <3>3, StaysPrepared
  <2> QED BY <2>3, <2>6, <2>7 DEF h, t
<1> QED BY <1>1, <1>2, <1>3

(***************************************************************************)
(* A protocol command that is waited for finds its QE in the context that  *)
(* performDtxProtocolCommand() requires, and COMMIT_PREPARED or            *)
(* ABORT_PREPARED finds the transaction prepared: neither a FATAL of the   *)
(* QE nor a "not found" error stems from the protocol.                     *)
(***************************************************************************)
THEOREM ContextAlwaysAccepted == Spec => []ContextAccepted
<1>1. Init => ContextInv
  BY DEF Init, ContextInv, GangContext, OwnCommands, ContextAccepted
<1>2. DtmInv /\ DtmInv' /\ ContextInv /\ [Next]_vars => ContextInv'
  BY GangContextStep, OwnCommandStep, LostCommandStep, ContextAcceptedStep DEF ContextInv, OwnCommands
<1>3. ContextInv => ContextAccepted
  BY DEF ContextInv
<1> QED BY <1>1, <1>2, <1>3, DtmInvariance, PTL DEF Spec
=============================================================================
