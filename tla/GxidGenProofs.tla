--------------------------- MODULE GxidGenProofs ---------------------------
(***************************************************************************)
(* Proofs about distributed transaction ids: for any number of backends,   *)
(* any batch size and any number of crashes, no id is handed out twice.    *)
(***************************************************************************)
EXTENDS GxidGen, TLAPS

USE GxidAssumption

(* The end of the batch in shared memory: what a running coordinator may   *)
(* hand out without another log record.                                    *)
BatchEnd == nextGxid + GxidCount

(* The order of LSNs.                                                      *)
LsnOrder ==
    /\ flushLsn <= insertLsn
    /\ ckpt.redo <= flushLsn
    /\ ckptPc # "idle" => up /\ ckpt.redo <= ckptRedo /\ ckptRedo <= insertLsn
    /\ \A r \in wal : r.lsn <= insertLsn

(* Records the replay would read have growing limits.  Older ones need     *)
(* not: a shutdown gives the rest of a batch up.                           *)
LimitsGrow ==
    \A r, q \in wal : ckpt.redo < r.lsn /\ r.lsn <= q.lsn => r.limit <= q.limit

(* No such record is beyond the batch, or the batch being made.            *)
LimitsKnown ==
    up => \A r \in wal : ckpt.redo < r.lsn =>
              r.limit <= BatchEnd + (IF bumpLock = NoProc THEN 0 ELSE PrefetchNum)

Bumping(p) == pc[p] \in {"insert", "flush", "add"}

(* Whoever makes a batch holds GxidBumpLock; its record, once inserted, is *)
(* after the REDO pointer of every checkpoint whose counter was read.      *)
BumpLogged ==
    \A p \in Proc : Bumping(p) =>
        /\ up
        /\ bumpLock = p
        /\ nextLimit = BatchEnd + PrefetchNum
        /\ pc[p] # "insert" =>
              \E r \in wal : /\ r.limit = nextLimit
                             /\ ckpt.redo < r.lsn
                             /\ ckptPc = "write" => ckptRedo < r.lsn
                             /\ pc[p] = "add" => r.lsn <= flushLsn

(* The replay from REDO pointer redo with counter base, up to end, does not *)
(* begin below e.                                                          *)
Covers(redo, base, end, e) ==
    /\ (\A r \in wal : ~ (redo < r.lsn /\ r.lsn <= end)) => e <= base
    /\ \A r \in wal :
          /\ redo < r.lsn /\ r.lsn <= end
          /\ \A q \in wal : redo < q.lsn /\ q.lsn <= end => q.lsn <= r.lsn
          => e <= r.limit

(* What must not be handed out again: all of the batch while it can be     *)
(* used, what was taken from it after a crash or a shutdown.               *)
Reserved == IF up THEN BatchEnd ELSE nextGxid

RestartReserved ==
    \A end \in flushLsn .. insertLsn : Covers(ckpt.redo, ckpt.nextGxid, end, Reserved)

(* The same for the checkpoint in the making.                              *)
CkptReserved ==
    ckptPc = "write" => Covers(ckptRedo, ckptGxid, insertLsn, BatchEnd)

HandedBelow == \A h \in handed : h < nextGxid

GxidCore ==
    /\ LsnOrder
    /\ LimitsGrow
    /\ LimitsKnown
    /\ BumpLogged
    /\ RestartReserved
    /\ CkptReserved
    /\ HandedBelow

GxidInv == TypeOK /\ GxidCore

-----------------------------------------------------------------------------
(* Where the processes are after a start. *)
LEMMA StartPc ==
    [p \in Proc |-> IF p = Dtr THEN "bump" ELSE "idle"] \in [Proc -> BackendPc \cup DtrPc]
BY DEF BackendPc, DtrPc

(* Init establishes the invariant. *)
LEMMA GxidInitInv == Init => GxidInv
<1> SUFFICES ASSUME Init PROVE GxidInv
  OBVIOUS
<1>1. TypeOK
  <2>1. pc \in [Proc -> BackendPc \cup DtrPc] /\ gxid \in [Backend -> Nat]
    BY StartPc DEF Init
  <2>2. ckpt \in [redo : Nat, nextGxid : Nat] /\ up \in BOOLEAN
    BY DEF Init
  <2>3. /\ bumpEvent \in BOOLEAN /\ dtrWoken \in BOOLEAN
        /\ wal \subseteq Record /\ handed \subseteq Nat
    BY DEF Init
  <2> QED BY <2>1, <2>2, <2>3 DEF Init, TypeOK
<1>2. LsnOrder /\ LimitsGrow /\ LimitsKnown /\ HandedBelow
  BY DEF Init, LsnOrder, LimitsGrow, LimitsKnown, HandedBelow
<1>3. BumpLogged
  BY DEF Init, BumpLogged, Bumping
<1>4. RestartReserved /\ CkptReserved
  BY DEF Init, RestartReserved, CkptReserved, Covers, Reserved, BatchEnd
<1> QED BY <1>1, <1>2, <1>3, <1>4 DEF GxidInv, GxidCore

(* What Covers is for: the start-up does not begin below e. *)
LEMMA CoversRestart ==
    ASSUME TypeOK, NEW e \in Nat, NEW g, NEW end \in Nat, IsRestartGxid(g, end),
           Covers(ckpt.redo, ckpt.nextGxid, end, e)
    PROVE  e <= g
<1>1. CASE Replayed(end) = {} /\ g = ckpt.nextGxid
  BY <1>1 DEF Replayed, Covers
<1>2. CASE \E r \in Replayed(end) : (\A q \in Replayed(end) : q.lsn <= r.lsn) /\ g = r.limit
  BY <1>2 DEF Replayed, Covers
<1> QED BY <1>1, <1>2 DEF IsRestartGxid

\* Wherever the log ends after a crash, start-up resumes at or above nextGxid.
LEMMA StartAbove ==
    ASSUME GxidInv, NEW end \in flushLsn .. insertLsn, NEW g, IsRestartGxid(g, end)
    PROVE  nextGxid <= g
<1> USE DEF GxidInv, GxidCore
<1>1. Reserved \in Nat /\ nextGxid <= Reserved /\ end \in Nat
  BY DEF TypeOK, Reserved, BatchEnd
<1>2. Covers(ckpt.redo, ckpt.nextGxid, end, Reserved)
  BY DEF RestartReserved
<1>3. Reserved <= g
  BY <1>1, <1>2, CoversRestart
<1>4. g \in Nat
  BY DEF IsRestartGxid, Replayed, TypeOK, Record
<1> QED BY <1>1, <1>3, <1>4 DEF TypeOK

(* A step of one process to a program counter of the code keeps pc a       *)
(* function on the processes.                                              *)
LEMMA GotoFacts ==
    ASSUME TypeOK, NEW p \in Proc, NEW from, NEW to \in BackendPc \cup DtrPc, Goto(p, from, to)
    PROVE  /\ up
           /\ pc[p] = from
           /\ pc' \in [Proc -> BackendPc \cup DtrPc]
           /\ pc'[p] = to
           /\ \A q \in Proc : q # p => pc'[q] = pc[q]
BY DEF Goto, TypeOK

(* Types are kept; that the start-up finds an id above 0 needs the rest of *)
(* the invariant.                                                          *)
LEMMA GxidTypeStep == GxidInv /\ [Next]_vars => TypeOK'
<1> SUFFICES ASSUME GxidInv, TypeOK, [Next]_vars PROVE TypeOK'
  BY DEF GxidInv
<1> USE DEF TypeOK, shmVars, walVars, ckptVars, procVars, Goto, BackendPc, DtrPc, Proc
<1>1. ASSUME NEW b \in Backend, StartActivate(b) PROVE TypeOK'
  BY <1>1 DEF StartActivate
<1>2. ASSUME NEW b \in Backend, TestCount(b) PROVE TypeOK'
  BY <1>2 DEF TestCount
<1>3. ASSUME NEW b \in Backend, TakeGxid(b) PROVE TypeOK'
  <2>1. CASE GxidCount > 0
    <3>1. handed' = handed \cup {nextGxid} /\ nextGxid' = nextGxid + 1
      BY <1>3, <2>1 DEF TakeGxid
    <3>2. handed' \subseteq Nat /\ nextGxid' \in Nat \ {0}
      BY <3>1
    <3>3. gxid' = [gxid EXCEPT ![b] = nextGxid]
      BY <1>3, <2>1 DEF TakeGxid
    <3>4. gxid' \in [Backend -> Nat]
      BY <3>3
    <3>5. GxidCount' \in Nat
      BY <1>3, <2>1 DEF TakeGxid
    <3>6. pc' \in [Proc -> BackendPc \cup DtrPc]
      BY <1>3 DEF TakeGxid
    <3> QED BY <1>3, <3>2, <3>4, <3>5, <3>6 DEF TakeGxid
  <2>2. CASE ~ (GxidCount > 0)
    BY <1>3, <2>2 DEF TakeGxid
  <2> QED BY <2>1, <2>2
<1>4. ASSUME NEW b \in Backend, EndGxact(b) PROVE TypeOK'
  BY <1>4 DEF EndGxact
<1>5. ASSUME NEW p \in Proc, BumpBlocked(p) PROVE TypeOK'
  BY <1>5 DEF BumpBlocked
<1>6. ASSUME NEW p \in Proc, BumpWaited(p) PROVE TypeOK'
  BY <1>6 DEF BumpWaited, AfterBump
<1>7. ASSUME NEW p \in Proc, BumpLimit(p) PROVE TypeOK'
  BY <1>7 DEF BumpLimit, AfterBump
<1>8. ASSUME NEW p \in Proc, PutNextGxid(p) PROVE TypeOK'
  <2>1. [lsn |-> insertLsn + 1, limit |-> nextLimit] \in Record
    BY DEF Record
  <2> QED BY <1>8, <2>1 DEF PutNextGxid
<1>9. ASSUME NEW p \in Proc, FlushNextGxid(p) PROVE TypeOK'
  BY <1>9 DEF FlushNextGxid
<1>10. ASSUME NEW p \in Proc, BumpCount(p) PROVE TypeOK'
  BY <1>10 DEF BumpCount, AfterBump
<1>11. CASE DtxRecoveryWakes
  BY <1>11 DEF DtxRecoveryWakes
<1>12. CASE ResetDtxRecoveryEvent
  BY <1>12 DEF ResetDtxRecoveryEvent
<1>13. CASE CkptSetRedo
  BY <1>13 DEF CkptSetRedo
<1>14. CASE CkptReadGxid
  BY <1>14 DEF CkptReadGxid
<1>15. CASE CkptWrite
  BY <1>15 DEF CkptWrite
<1>16. CASE XLogBackgroundFlush
  BY <1>16 DEF XLogBackgroundFlush
<1>17. CASE Crash
  <2>1. pc' \in [Proc -> BackendPc \cup DtrPc]
    BY <1>17, StartPc DEF Crash, Stopped
  <2>2. PICK cut \in flushLsn .. insertLsn :
             wal' = {r \in wal : r.lsn <= cut} /\ insertLsn' = cut /\ flushLsn' = cut
    BY <1>17 DEF Crash
  <2>3. wal' \subseteq Record /\ insertLsn' \in Nat /\ flushLsn' \in Nat
    BY <2>2
  <2>4. crashes' \in 0 .. MaxCrash
    BY <1>17 DEF Crash
  <2>5. gxid' \in [Backend -> Nat]
    BY <1>17 DEF Crash, Stopped
  <2> HIDE DEF Proc, BackendPc, DtrPc
  <2> QED BY <1>17, <2>1, <2>3, <2>4, <2>5 DEF Crash, Stopped
<1>18. CASE ShutdownCheckpoint
  <2>1. pc' \in [Proc -> BackendPc \cup DtrPc]
    BY <1>18, StartPc DEF ShutdownCheckpoint, Stopped
  <2>2. crashes' \in 0 .. MaxCrash /\ ckpt' \in [redo : Nat, nextGxid : Nat]
    BY <1>18 DEF ShutdownCheckpoint
  <2>3. gxid' \in [Backend -> Nat] /\ up' \in BOOLEAN
    BY <1>18 DEF ShutdownCheckpoint, Stopped
  <2>4. bumpEvent' = FALSE /\ dtrWoken' = FALSE
    BY <1>18 DEF ShutdownCheckpoint, Stopped
  <2>5. insertLsn' \in Nat /\ flushLsn' \in Nat
    BY <1>18 DEF ShutdownCheckpoint
  <2>6. bumpLock' = NoProc /\ ckptPc' = "idle"
    BY <1>18 DEF ShutdownCheckpoint, Stopped
  <2> HIDE DEF Proc, BackendPc, DtrPc
  <2> QED BY <1>18, <2>1, <2>2, <2>3, <2>4, <2>5, <2>6 DEF ShutdownCheckpoint, Stopped
<1>19. CASE StartupXLOG
  <2>1. PICK g \in {ckpt.nextGxid} \cup {r.limit : r \in wal} :
             /\ IsRestartGxid(g, insertLsn)
             /\ nextGxid' = g
             /\ ckpt' = [redo |-> insertLsn, nextGxid |-> g]
    BY <1>19 DEF StartupXLOG
  <2>2. g \in Nat
    BY DEF Record
  <2>3. nextGxid <= g
    <3>1. insertLsn \in flushLsn .. insertLsn
      BY DEF GxidInv, GxidCore, LsnOrder
    <3> HIDE DEF TypeOK
    <3> QED BY <2>1, <3>1, StartAbove
  <2>4. nextGxid' \in Nat \ {0} /\ ckpt' \in [redo : Nat, nextGxid : Nat]
    BY <2>1, <2>2, <2>3
  <2> QED BY <1>19, <2>4 DEF StartupXLOG
<1>20. CASE UNCHANGED vars
  BY <1>20 DEF vars
<1> QED
  BY <1>1, <1>2, <1>3, <1>4, <1>5, <1>6, <1>7, <1>8, <1>9, <1>10, <1>11, <1>12, <1>13, <1>14,
     <1>15, <1>16, <1>17, <1>18, <1>19, <1>20
     DEF Next, Activate, bumpGxid, Recovery, Checkpoint

-----------------------------------------------------------------------------
(* Steps that touch neither the batch nor the log.                         *)
Quiet ==
    /\ UNCHANGED <<nextGxid, GxidCount, bumpLock, nextLimit, wal, insertLsn, flushLsn, ckpt,
                   ckptPc, ckptRedo, ckptGxid, handed, up>>
    /\ \A p \in Proc : pc'[p] \in {"insert", "flush", "add"} => pc'[p] = pc[p]

\* Steps that hand out and record nothing.
LEMMA QuietStep == GxidInv /\ Quiet => GxidCore'
<1> SUFFICES ASSUME GxidInv, Quiet PROVE GxidCore'
  OBVIOUS
<1> USE DEF GxidInv, GxidCore, Quiet, BatchEnd
<1>1. LsnOrder' /\ LimitsGrow' /\ LimitsKnown' /\ HandedBelow'
  BY DEF LsnOrder, LimitsGrow, LimitsKnown, HandedBelow
<1>2. BumpLogged'
  BY DEF BumpLogged, Bumping
<1>3. RestartReserved' /\ CkptReserved'
  BY DEF RestartReserved, CkptReserved, Covers, Reserved
<1> QED BY <1>1, <1>2, <1>3

(* The quiet steps of the code. *)
LEMMA QuietSteps ==
    ASSUME TypeOK,
           \/ \E b \in Backend : StartActivate(b) \/ TestCount(b) \/ EndGxact(b)
           \/ \E p \in Proc : BumpBlocked(p) \/ BumpWaited(p)
           \/ Recovery
           \/ UNCHANGED vars
    PROVE  Quiet
<1> USE DEF shmVars, walVars, ckptVars, procVars, Quiet
<1>1. ASSUME NEW p \in Proc, NEW from, NEW to, Goto(p, from, to), to \notin {"insert", "flush", "add"}
      PROVE \A q \in Proc : pc'[q] \in {"insert", "flush", "add"} => pc'[q] = pc[q]
  BY <1>1 DEF Goto, TypeOK
<1>2. ASSUME NEW b \in Backend, StartActivate(b) \/ TestCount(b) \/ EndGxact(b) PROVE Quiet
  <2>1. b \in Proc
    BY DEF Proc
  <2>2. CASE StartActivate(b)
    BY <1>1, <2>1, <2>2 DEF StartActivate
  <2>3. CASE TestCount(b)
    BY <1>1, <2>1, <2>3 DEF TestCount
  <2>4. CASE EndGxact(b)
    BY <1>1, <2>1, <2>4 DEF EndGxact
  <2> QED BY <1>2, <2>2, <2>3, <2>4
<1>3. ASSUME NEW p \in Proc, BumpBlocked(p) \/ BumpWaited(p) PROVE Quiet
  <2>1. AfterBump(p) \notin {"insert", "flush", "add"}
    BY DEF AfterBump
  <2>2. CASE BumpBlocked(p)
    BY <1>1, <2>2 DEF BumpBlocked
  <2>3. CASE BumpWaited(p)
    BY <1>1, <2>1, <2>3 DEF BumpWaited
  <2> QED BY <1>3, <2>2, <2>3
<1>4. CASE Recovery
  <2>1. Dtr \in Proc
    BY DEF Proc
  <2> QED BY <1>1, <1>4, <2>1 DEF Recovery, DtxRecoveryWakes, ResetDtxRecoveryEvent
<1>5. CASE UNCHANGED vars
  BY <1>5 DEF vars
<1> QED BY <1>2, <1>3, <1>4, <1>5

(* An id is taken from the batch: its end stays where it is. *)
LEMMA TakeStep ==
    ASSUME GxidInv, NEW b \in Backend, TakeGxid(b)
    PROVE  GxidCore'
<1> USE DEF GxidInv, GxidCore
<1>1. b \in Proc
  BY DEF Proc
<1>2. \A q \in Proc : pc'[q] \in {"insert", "flush", "add"} => pc'[q] = pc[q]
  BY <1>1 DEF TakeGxid, Goto, TypeOK
<1>3. CASE GxidCount > 0
  <2>1. BatchEnd' = BatchEnd /\ Reserved' = Reserved
    <3>1. nextGxid' = nextGxid + 1 /\ GxidCount' = GxidCount - 1
      BY <1>3 DEF TakeGxid
    <3>2. up /\ up'
      BY DEF TakeGxid, Goto
    <3> QED BY <3>1, <3>2 DEF BatchEnd, Reserved, TypeOK
  <2>2. UNCHANGED <<bumpLock, nextLimit, wal, insertLsn, flushLsn, ckpt, ckptPc, ckptRedo, ckptGxid, up>>
    BY DEF TakeGxid, walVars, ckptVars
  <2>3. LsnOrder' /\ LimitsGrow' /\ LimitsKnown'
    BY <2>1, <2>2 DEF LsnOrder, LimitsGrow, LimitsKnown
  <2>4. HandedBelow'
    <3>1. handed' = handed \cup {nextGxid} /\ nextGxid' = nextGxid + 1
      BY <1>3 DEF TakeGxid
    <3> QED BY <3>1 DEF HandedBelow, TypeOK
  <2>5. BumpLogged'
    BY <1>2, <2>1, <2>2 DEF BumpLogged, Bumping
  <2>6. RestartReserved' /\ CkptReserved'
    BY <2>1, <2>2 DEF RestartReserved, CkptReserved, Covers
  <2> QED BY <2>3, <2>4, <2>5, <2>6
<1>4. CASE ~ (GxidCount > 0)
  <2>1. Quiet
    BY <1>2, <1>4 DEF TakeGxid, walVars, ckptVars, Quiet
  <2> QED BY <2>1, QuietStep
<1> QED BY <1>3, <1>4

(* The threshold below which a batch is bumped is a number. *)
LEMMA ThresholdNat == Threshold \in Nat
BY GxidAssumption DEF Threshold

(* Under GxidBumpLock the new limit is fixed, or nothing is done. *)
LEMMA BumpLimitStep ==
    ASSUME GxidInv, NEW p \in Proc, BumpLimit(p)
    PROVE  GxidCore'
<1> USE DEF GxidInv, GxidCore
<1>1. \A q \in Proc : ~ Bumping(q)
  BY DEF BumpLimit, BumpLogged
<1>2. CASE GxidCount > Threshold
  <2>1. AfterBump(p) \notin {"insert", "flush", "add"}
    BY DEF AfterBump
  <2>2. Goto(p, "bump", AfterBump(p)) /\ UNCHANGED <<bumpLock, nextLimit>>
    BY <1>2, ThresholdNat DEF BumpLimit, TypeOK
  <2>3. \A q \in Proc : pc'[q] \in {"insert", "flush", "add"} => pc'[q] = pc[q]
    BY <2>1, <2>2 DEF Goto, TypeOK
  <2>4. Quiet
    BY <2>2, <2>3 DEF BumpLimit, walVars, ckptVars, Quiet
  <2> QED BY <2>4, QuietStep
<1>3. CASE ~ (GxidCount > Threshold)
  <2>1. /\ UNCHANGED <<nextGxid, GxidCount, wal, insertLsn, flushLsn, ckpt, ckptPc, ckptRedo,
                       ckptGxid, handed, up>>
        /\ bumpLock = NoProc /\ bumpLock' = p /\ up
        /\ nextLimit' = nextGxid + GxidCount + PrefetchNum
    BY <1>3 DEF BumpLimit, walVars, ckptVars, Goto
  <2>2. pc' = [pc EXCEPT ![p] = "insert"]
    BY <1>3 DEF BumpLimit, Goto
  <2>3. BatchEnd' = BatchEnd /\ Reserved' = Reserved /\ BatchEnd \in Nat
    BY <2>1 DEF BatchEnd, Reserved, TypeOK
  <2>4. LsnOrder' /\ LimitsGrow' /\ HandedBelow'
    BY <2>1 DEF LsnOrder, LimitsGrow, HandedBelow
  <2>5. LimitsKnown'
    BY <2>1, <2>3 DEF LimitsKnown, TypeOK, Record
  <2>6. BumpLogged'
    BY <1>1, <2>1, <2>2, <2>3 DEF BumpLogged, Bumping, TypeOK, BatchEnd
  <2>7. RestartReserved' /\ CkptReserved'
    BY <2>1, <2>3 DEF RestartReserved, CkptReserved, Covers
  <2> QED BY <2>4, <2>5, <2>6, <2>7
<1> QED BY <1>2, <1>3

(* XLogPutNextGxid() inserts a record with the largest limit so far. *)
LEMMA PutStep ==
    ASSUME GxidInv, NEW p \in Proc, PutNextGxid(p)
    PROVE  GxidCore'
<1> USE DEF GxidInv, GxidCore
<1> DEFINE new == [lsn |-> insertLsn + 1, limit |-> nextLimit]
<1>1. /\ UNCHANGED <<nextGxid, GxidCount, bumpLock, nextLimit, flushLsn, ckpt, ckptPc, ckptRedo,
                     ckptGxid, handed, up>>
      /\ insertLsn' = insertLsn + 1
      /\ wal' = wal \cup {new}
      /\ pc[p] = "insert"
      /\ pc' = [pc EXCEPT ![p] = "flush"]
  BY DEF PutNextGxid, shmVars, ckptVars, Goto
<1>2. up /\ bumpLock = p /\ nextLimit = BatchEnd + PrefetchNum
  BY <1>1 DEF BumpLogged, Bumping
<1>3. new.lsn = insertLsn + 1 /\ new.limit = nextLimit
  OBVIOUS
<1>4. /\ insertLsn \in Nat /\ flushLsn \in Nat /\ ckpt.redo \in Nat /\ ckptRedo \in Nat
      /\ nextLimit \in Nat /\ BatchEnd \in Nat /\ PrefetchNum \in Nat
      /\ \A r \in wal : r.lsn \in Nat /\ r.limit \in Nat
  BY DEF TypeOK, Record, BatchEnd
<1>5. BatchEnd' = BatchEnd /\ Reserved' = Reserved /\ Reserved = BatchEnd
  BY <1>1, <1>2 DEF BatchEnd, Reserved
<1>6. p # NoProc
  OBVIOUS
<1> HIDE DEF new
<1>7. LsnOrder'
  BY <1>1, <1>3, <1>4 DEF LsnOrder
<1>8. \A r \in wal : ckpt.redo < r.lsn => r.limit <= nextLimit
  BY <1>2, <1>4, <1>6 DEF LimitsKnown
<1>9. LimitsGrow'
  BY <1>1, <1>3, <1>4, <1>8 DEF LimitsGrow, LsnOrder
<1>10. LimitsKnown'
  BY <1>1, <1>2, <1>3, <1>4, <1>5, <1>6, <1>8 DEF LimitsKnown
<1>11. BumpLogged'
  <2>1. new \in wal' /\ ckpt.redo < new.lsn /\ (ckptPc = "write" => ckptRedo < new.lsn)
    BY <1>1, <1>3, <1>4 DEF LsnOrder
  <2>2. \A q \in Proc : Bumping(q)' => q = p
    BY <1>1, <1>2 DEF BumpLogged, Bumping, TypeOK
  <2>3. pc'[p] = "flush"
    BY <1>1 DEF TypeOK
  <2> QED BY <1>1, <1>2, <1>3, <1>5, <2>1, <2>2, <2>3 DEF BumpLogged, Bumping
<1>12. RestartReserved'
  <2> SUFFICES ASSUME NEW end \in flushLsn .. insertLsn + 1
               PROVE  Covers(ckpt.redo, ckpt.nextGxid, end, BatchEnd)'
    BY <1>1, <1>5 DEF RestartReserved
  <2>1. CASE end = insertLsn + 1
    BY <1>1, <1>2, <1>3, <1>4, <1>5, <2>1 DEF Covers, LsnOrder
  <2>2. CASE end # insertLsn + 1
    <3>1. end \in flushLsn .. insertLsn
      BY <1>4, <2>2
    <3>2. Covers(ckpt.redo, ckpt.nextGxid, end, BatchEnd)
      BY <1>5, <3>1 DEF RestartReserved
    <3> QED BY <1>1, <1>3, <1>4, <1>5, <3>1, <3>2 DEF Covers
  <2> QED BY <2>1, <2>2
<1>13. CkptReserved'
  BY <1>1, <1>2, <1>3, <1>4, <1>5 DEF CkptReserved, Covers, LsnOrder
<1>14. HandedBelow'
  BY <1>1 DEF HandedBelow
<1> QED BY <1>7, <1>9, <1>10, <1>11, <1>12, <1>13, <1>14

(* A flush takes away places where a crash can cut the log. *)
LEMMA FlushKeeps ==
    ASSUME GxidInv, flushLsn' = insertLsn,
           UNCHANGED <<nextGxid, GxidCount, bumpLock, nextLimit, wal, insertLsn, ckpt, ckptPc,
                       ckptRedo, ckptGxid, handed, up>>
    PROVE  /\ LsnOrder' /\ LimitsGrow' /\ LimitsKnown'
           /\ RestartReserved' /\ CkptReserved' /\ HandedBelow'
<1> USE DEF GxidInv, GxidCore, BatchEnd
<1>1. LsnOrder' /\ LimitsGrow' /\ LimitsKnown' /\ HandedBelow'
  BY DEF LsnOrder, LimitsGrow, LimitsKnown, HandedBelow, TypeOK
<1>2. CkptReserved'
  BY DEF CkptReserved, Covers
<1>3. \A end \in insertLsn .. insertLsn : end \in flushLsn .. insertLsn
  BY DEF TypeOK, LsnOrder
<1>4. RestartReserved'
  BY <1>3 DEF RestartReserved, Covers, Reserved
<1> QED BY <1>1, <1>2, <1>4

\* A backend flushes the log.
LEMMA FlushStep ==
    ASSUME GxidInv, NEW p \in Proc, FlushNextGxid(p)
    PROVE  GxidCore'
<1> USE DEF GxidInv, GxidCore
<1>1. /\ flushLsn' = insertLsn
      /\ UNCHANGED <<nextGxid, GxidCount, bumpLock, nextLimit, wal, insertLsn, ckpt, ckptPc,
                     ckptRedo, ckptGxid, handed, up>>
      /\ pc[p] = "flush" /\ pc' = [pc EXCEPT ![p] = "add"]
  BY DEF FlushNextGxid, shmVars, ckptVars, Goto
<1>2. BumpLogged'
  <2>1. \A q \in Proc : Bumping(q)' => q = p /\ Bumping(p)
    BY <1>1 DEF BumpLogged, Bumping, TypeOK
  <2>2. \A r \in wal : r.lsn <= flushLsn'
    BY <1>1 DEF LsnOrder
  <2> QED BY <1>1, <2>1, <2>2 DEF BumpLogged, Bumping, BatchEnd
<1> QED BY <1>1, <1>2, FlushKeeps

\* The log is flushed in the background.
LEMMA BackgroundFlushStep == GxidInv /\ XLogBackgroundFlush => GxidCore'
<1> SUFFICES ASSUME GxidInv, XLogBackgroundFlush PROVE GxidCore'
  OBVIOUS
<1> USE DEF GxidInv, GxidCore
<1>1. /\ flushLsn' = insertLsn
      /\ UNCHANGED <<nextGxid, GxidCount, bumpLock, nextLimit, wal, insertLsn, ckpt, ckptPc,
                     ckptRedo, ckptGxid, handed, up, pc>>
  BY DEF XLogBackgroundFlush, shmVars, ckptVars, procVars
<1>2. \A r \in wal : r.lsn <= flushLsn'
  BY <1>1 DEF LsnOrder
<1>3. BumpLogged'
  BY <1>1, <1>2 DEF BumpLogged, Bumping, BatchEnd
<1> QED BY <1>1, <1>3, FlushKeeps

(* The batch grows to the limit that has just been made durable. *)
LEMMA BumpCountStep ==
    ASSUME GxidInv, NEW p \in Proc, BumpCount(p)
    PROVE  GxidCore'
<1> USE DEF GxidInv, GxidCore
<1>1. /\ UNCHANGED <<nextGxid, nextLimit, wal, insertLsn, flushLsn, ckpt, ckptPc, ckptRedo,
                     ckptGxid, handed, up>>
      /\ GxidCount' = GxidCount + PrefetchNum
      /\ bumpLock' = NoProc
      /\ pc[p] = "add"
      /\ pc' = [pc EXCEPT ![p] = AfterBump(p)]
  BY DEF BumpCount, walVars, ckptVars, Goto
<1>2. /\ up /\ bumpLock = p /\ nextLimit = BatchEnd + PrefetchNum
      /\ \E r \in wal : /\ r.limit = nextLimit
                        /\ ckpt.redo < r.lsn
                        /\ ckptPc = "write" => ckptRedo < r.lsn
                        /\ r.lsn <= flushLsn
  BY <1>1 DEF BumpLogged, Bumping
<1>3. PICK r \in wal : /\ r.limit = nextLimit
                       /\ ckpt.redo < r.lsn
                       /\ ckptPc = "write" => ckptRedo < r.lsn
                       /\ r.lsn <= flushLsn
  BY <1>2
<1>4. /\ insertLsn \in Nat /\ flushLsn \in Nat /\ ckpt.redo \in Nat /\ ckptRedo \in Nat
      /\ nextLimit \in Nat /\ PrefetchNum \in Nat
      /\ \A q \in wal : q.lsn \in Nat /\ q.limit \in Nat
  BY DEF TypeOK, Record
<1>5. BatchEnd' = nextLimit /\ Reserved' = nextLimit
  BY <1>1, <1>2 DEF BatchEnd, Reserved, TypeOK
<1>6. \A q \in wal : r.lsn <= q.lsn => nextLimit <= q.limit
  BY <1>3 DEF LimitsGrow
<1>7. LsnOrder' /\ LimitsGrow' /\ HandedBelow'
  BY <1>1 DEF LsnOrder, LimitsGrow, HandedBelow
<1>8. LimitsKnown'
  <2>1. \A q \in wal : ckpt.redo < q.lsn => q.limit <= nextLimit
    BY <1>2, <1>4 DEF LimitsKnown
  <2> QED BY <1>1, <1>4, <1>5, <2>1 DEF LimitsKnown
<1>9. BumpLogged'
  <2>1. \A q \in Proc : ~ Bumping(q)'
    BY <1>1, <1>2 DEF BumpLogged, Bumping, AfterBump, TypeOK
  <2> QED BY <2>1 DEF BumpLogged
<1>10. RestartReserved'
  <2> SUFFICES ASSUME NEW end \in flushLsn .. insertLsn
               PROVE  Covers(ckpt.redo, ckpt.nextGxid, end, Reserved)'
    BY <1>1 DEF RestartReserved
  <2> QED BY <1>1, <1>3, <1>4, <1>5, <1>6 DEF Covers
<1>11. CkptReserved'
  <2>1. r.lsn <= insertLsn
    BY DEF LsnOrder
  <2> QED BY <1>1, <1>3, <1>4, <1>5, <1>6, <2>1 DEF CkptReserved, Covers
<1> QED BY <1>7, <1>8, <1>9, <1>10, <1>11

(* CreateCheckPoint(): REDO, the counter, the record. *)
LEMMA CkptSetRedoStep == GxidInv /\ CkptSetRedo => GxidCore'
<1> SUFFICES ASSUME GxidInv, CkptSetRedo PROVE GxidCore'
  OBVIOUS
<1> USE DEF GxidInv, GxidCore
<1>1. /\ UNCHANGED <<nextGxid, GxidCount, bumpLock, nextLimit, wal, insertLsn, flushLsn, ckpt,
                     handed, up, pc>>
      /\ up /\ ckptPc' = "redo" /\ ckptRedo' = insertLsn
  BY DEF CkptSetRedo, shmVars, walVars, procVars
<1>2. LsnOrder'
  BY <1>1 DEF LsnOrder, TypeOK
<1>3. LimitsGrow' /\ LimitsKnown' /\ HandedBelow'
  BY <1>1 DEF LimitsGrow, LimitsKnown, HandedBelow, BatchEnd
<1>4. BumpLogged'
  BY <1>1 DEF BumpLogged, Bumping, BatchEnd
<1>5. RestartReserved' /\ CkptReserved'
  BY <1>1 DEF RestartReserved, CkptReserved, Covers, Reserved, BatchEnd
<1> QED BY <1>2, <1>3, <1>4, <1>5

\* A checkpoint reads the generator.
LEMMA CkptReadStep == GxidInv /\ CkptReadGxid => GxidCore'
<1> SUFFICES ASSUME GxidInv, CkptReadGxid PROVE GxidCore'
  OBVIOUS
<1> USE DEF GxidInv, GxidCore
<1>1. /\ UNCHANGED <<nextGxid, GxidCount, bumpLock, nextLimit, wal, insertLsn, flushLsn, ckpt,
                     ckptRedo, handed, up, pc>>
      /\ up /\ bumpLock = NoProc /\ ckptPc = "redo" /\ ckptPc' = "write"
      /\ ckptGxid' = BatchEnd
  BY DEF CkptReadGxid, shmVars, walVars, procVars, BatchEnd
<1>2. LsnOrder' /\ LimitsGrow' /\ LimitsKnown' /\ HandedBelow'
  BY <1>1 DEF LsnOrder, LimitsGrow, LimitsKnown, HandedBelow, BatchEnd
<1>3. BumpLogged'
  BY <1>1 DEF BumpLogged, Bumping
<1>4. RestartReserved'
  BY <1>1 DEF RestartReserved, Covers, Reserved, BatchEnd
<1>5. CkptReserved'
  <2>1. Covers(ckpt.redo, ckpt.nextGxid, insertLsn, BatchEnd)
    BY <1>1 DEF RestartReserved, Reserved, LsnOrder, TypeOK
  <2>2. BatchEnd \in Nat /\ ckpt.redo <= ckptRedo
    BY <1>1 DEF BatchEnd, TypeOK, LsnOrder
  <2>3. ckpt.redo \in Nat /\ ckptRedo \in Nat /\ \A q \in wal : q.lsn \in Nat
    BY DEF TypeOK, Record
  <2>4. Covers(ckptRedo, BatchEnd, insertLsn, BatchEnd)
    BY <2>1, <2>2, <2>3 DEF Covers
  <2>5. BatchEnd' = BatchEnd
    BY <1>1 DEF BatchEnd
  <2> QED BY <1>1, <2>4, <2>5 DEF CkptReserved, Covers
<1> QED BY <1>2, <1>3, <1>4, <1>5

\* A checkpoint is written.
LEMMA CkptWriteStep == GxidInv /\ CkptWrite => GxidCore'
<1> SUFFICES ASSUME GxidInv, CkptWrite PROVE GxidCore'
  OBVIOUS
<1> USE DEF GxidInv, GxidCore
<1>1. /\ UNCHANGED <<nextGxid, GxidCount, bumpLock, nextLimit, wal, handed, up, pc>>
      /\ up /\ ckptPc = "write" /\ ckptPc' = "idle"
      /\ insertLsn' = insertLsn + 1 /\ flushLsn' = insertLsn + 1
      /\ ckpt' = [redo |-> ckptRedo, nextGxid |-> ckptGxid]
  BY DEF CkptWrite, shmVars, procVars
<1>2. ckpt'.redo = ckptRedo /\ ckpt'.nextGxid = ckptGxid
  BY <1>1
<1>3. ckpt.redo <= ckptRedo /\ ckptRedo <= insertLsn
  BY <1>1 DEF LsnOrder
<1>4. /\ insertLsn \in Nat /\ flushLsn \in Nat /\ ckpt.redo \in Nat /\ ckptRedo \in Nat
      /\ \A q \in wal : q.lsn \in Nat
  BY DEF TypeOK, Record
<1>5. BatchEnd' = BatchEnd /\ Reserved' = BatchEnd
  BY <1>1 DEF BatchEnd, Reserved
<1>6. LsnOrder'
  BY <1>1, <1>2, <1>3, <1>4 DEF LsnOrder
<1>7. LimitsGrow' /\ LimitsKnown' /\ HandedBelow'
  BY <1>1, <1>2, <1>3, <1>4, <1>5 DEF LimitsGrow, LimitsKnown, HandedBelow
<1>8. BumpLogged'
  <2> SUFFICES ASSUME NEW p \in Proc, Bumping(p), pc[p] # "insert"
               PROVE  \E r \in wal : /\ r.limit = nextLimit
                                     /\ ckptRedo < r.lsn
                                     /\ pc[p] = "add" => r.lsn <= insertLsn + 1
    BY <1>1, <1>2, <1>5 DEF BumpLogged, Bumping
  <2>1. PICK r \in wal : r.limit = nextLimit /\ ckptRedo < r.lsn
    BY <1>1 DEF BumpLogged
  <2>2. r.lsn <= insertLsn + 1
    BY <1>4 DEF LsnOrder
  <2> QED BY <2>1, <2>2
<1>9. RestartReserved'
  <2> SUFFICES ASSUME NEW end \in insertLsn + 1 .. insertLsn + 1
               PROVE  Covers(ckpt.redo, ckpt.nextGxid, end, Reserved)'
    BY <1>1 DEF RestartReserved
  <2>1. Covers(ckptRedo, ckptGxid, insertLsn, BatchEnd)
    BY <1>1 DEF CkptReserved
  <2>2. end = insertLsn + 1
    BY <1>4
  <2>3. \A q \in wal : q.lsn <= end /\ q.lsn <= insertLsn
    BY <1>4, <2>2 DEF LsnOrder
  <2> QED BY <1>1, <1>2, <1>5, <2>1, <2>3 DEF Covers
<1>10. CkptReserved'
  BY <1>1 DEF CkptReserved
<1> QED BY <1>6, <1>7, <1>8, <1>9, <1>10

(* A crash leaves a log that is cut somewhere after the last flush. *)
LEMMA CrashStep == GxidInv /\ Crash => GxidCore'
<1> SUFFICES ASSUME GxidInv, Crash PROVE GxidCore'
  OBVIOUS
<1> USE DEF GxidInv, GxidCore
<1>1. PICK cut \in flushLsn .. insertLsn :
           wal' = {r \in wal : r.lsn <= cut} /\ insertLsn' = cut /\ flushLsn' = cut
  BY DEF Crash
<1>2. /\ up /\ ~ up' /\ ckptPc' = "idle" /\ ckpt' = ckpt
      /\ nextGxid' = nextGxid /\ handed' = handed
      /\ pc' = [p \in Proc |-> IF p = Dtr THEN "bump" ELSE "idle"]
  BY DEF Crash, Stopped
<1>3. /\ insertLsn \in Nat /\ flushLsn \in Nat /\ cut \in Nat /\ flushLsn <= cut
      /\ ckpt.redo \in Nat /\ ckpt.nextGxid \in Nat /\ nextGxid \in Nat /\ BatchEnd \in Nat
      /\ nextGxid <= BatchEnd
      /\ \A q \in wal : q.lsn \in Nat /\ q.limit \in Nat
  BY DEF TypeOK, Record, BatchEnd
<1>4. LsnOrder'
  BY <1>1, <1>2, <1>3 DEF LsnOrder
<1>5. LimitsGrow' /\ LimitsKnown' /\ HandedBelow' /\ CkptReserved'
  BY <1>1, <1>2 DEF LimitsGrow, LimitsKnown, HandedBelow, CkptReserved
<1>6. BumpLogged'
  BY <1>2 DEF BumpLogged, Bumping
<1>7. RestartReserved'
  <2> SUFFICES ASSUME NEW end \in cut .. cut
               PROVE  Covers(ckpt.redo, ckpt.nextGxid, end, Reserved)'
    BY <1>1 DEF RestartReserved
  <2>1. end = cut
    BY <1>3
  <2>2. Covers(ckpt.redo, ckpt.nextGxid, cut, BatchEnd)
    BY <1>2 DEF RestartReserved, Reserved
  <2>3. Covers(ckpt.redo, ckpt.nextGxid, cut, nextGxid)
    BY <1>3, <2>2 DEF Covers
  <2>4. Reserved' = nextGxid
    BY <1>2 DEF Reserved
  <2> QED BY <1>1, <1>2, <2>1, <2>3, <2>4 DEF Covers
<1> QED BY <1>4, <1>5, <1>6, <1>7

(* A log in which nothing lies after REDO. *)
LEMMA EmptyReplay ==
    ASSUME TypeOK, LsnOrder, wal' = wal, insertLsn' = insertLsn + 1, flushLsn' = insertLsn + 1,
           ckpt'.redo = insertLsn, ckpt'.nextGxid = Reserved', ckptPc' = "idle",
           Reserved' \in Nat
    PROVE  LsnOrder' /\ LimitsGrow' /\ LimitsKnown' /\ RestartReserved' /\ CkptReserved'
<1>1. /\ insertLsn \in Nat
      /\ \A r \in wal : r.lsn \in Nat /\ r.lsn <= insertLsn /\ ~ (insertLsn < r.lsn)
  BY DEF TypeOK, Record, LsnOrder
<1>2. LsnOrder'
  BY <1>1 DEF LsnOrder
<1>3. LimitsGrow' /\ LimitsKnown' /\ CkptReserved'
  BY <1>1 DEF LimitsGrow, LimitsKnown, CkptReserved
<1>4. RestartReserved'
  BY <1>1 DEF RestartReserved, Covers
<1> QED BY <1>2, <1>3, <1>4

\* A clean shutdown.
LEMMA ShutdownStep == GxidInv /\ ShutdownCheckpoint => GxidCore'
<1> SUFFICES ASSUME GxidInv, ShutdownCheckpoint PROVE GxidCore'
  OBVIOUS
<1> USE DEF GxidInv, GxidCore
<1>1. /\ wal' = wal /\ insertLsn' = insertLsn + 1 /\ flushLsn' = insertLsn + 1
      /\ ckpt' = [redo |-> insertLsn, nextGxid |-> nextGxid]
  BY DEF ShutdownCheckpoint
<1>2. /\ ~ up' /\ ckptPc' = "idle" /\ nextGxid' = nextGxid /\ handed' = handed
      /\ pc' = [p \in Proc |-> IF p = Dtr THEN "bump" ELSE "idle"]
  BY DEF ShutdownCheckpoint, Stopped
<1>3. Reserved' = nextGxid /\ Reserved' \in Nat
  BY <1>2 DEF Reserved, TypeOK
<1>4. ckpt'.redo = insertLsn /\ ckpt'.nextGxid = Reserved'
  BY <1>1, <1>3
<1>5. LsnOrder' /\ LimitsGrow' /\ LimitsKnown' /\ RestartReserved' /\ CkptReserved'
  BY <1>1, <1>2, <1>3, <1>4, EmptyReplay
<1>6. BumpLogged'
  BY <1>2 DEF BumpLogged, Bumping
<1>7. HandedBelow'
  BY <1>2 DEF HandedBelow
<1> QED BY <1>5, <1>6, <1>7

(* The start-up begins a new, empty batch above everything handed out. *)
LEMMA StartupStep == GxidInv /\ StartupXLOG => GxidCore'
<1> SUFFICES ASSUME GxidInv, StartupXLOG PROVE GxidCore'
  OBVIOUS
<1> USE DEF GxidInv, GxidCore
<1>1. PICK g \in {ckpt.nextGxid} \cup {r.limit : r \in wal} :
           /\ IsRestartGxid(g, insertLsn)
           /\ nextGxid' = g
           /\ ckpt' = [redo |-> insertLsn, nextGxid |-> g]
  BY DEF StartupXLOG
<1>2. /\ ~ up /\ up' /\ GxidCount' = 0 /\ handed' = handed /\ pc' = pc /\ wal' = wal
      /\ ckptPc' = ckptPc /\ insertLsn' = insertLsn + 1 /\ flushLsn' = insertLsn + 1
  BY DEF StartupXLOG, ckptVars, procVars
<1>3. g \in Nat
  BY DEF TypeOK, Record
<1>4. nextGxid <= g
  BY <1>1, StartAbove DEF LsnOrder, TypeOK
<1>5. Reserved' = g
  BY <1>1, <1>2, <1>3 DEF Reserved, BatchEnd
<1>6. ckpt'.redo = insertLsn /\ ckpt'.nextGxid = Reserved' /\ ckptPc' = "idle"
  BY <1>1, <1>2, <1>5 DEF LsnOrder
<1>7. LsnOrder' /\ LimitsGrow' /\ LimitsKnown' /\ RestartReserved' /\ CkptReserved'
  BY <1>2, <1>3, <1>5, <1>6, EmptyReplay
<1>8. BumpLogged'
  BY <1>2 DEF BumpLogged, Bumping
<1>9. HandedBelow'
  BY <1>1, <1>2, <1>3, <1>4 DEF HandedBelow, TypeOK
<1> QED BY <1>7, <1>8, <1>9

(* The invariant is inductive. *)
LEMMA GxidStep == GxidInv /\ [Next]_vars => GxidInv'
<1> SUFFICES ASSUME GxidInv, [Next]_vars PROVE GxidInv'
  OBVIOUS
<1>1. TypeOK'
  BY GxidTypeStep
<1>2. TypeOK
  BY DEF GxidInv
<1>3. CASE \/ \E b \in Backend : StartActivate(b) \/ TestCount(b) \/ EndGxact(b)
           \/ \E p \in Proc : BumpBlocked(p) \/ BumpWaited(p)
           \/ Recovery
           \/ UNCHANGED vars
  BY <1>1, <1>2, <1>3, QuietSteps, QuietStep DEF GxidInv
<1>4. ASSUME NEW b \in Backend, TakeGxid(b) PROVE GxidInv'
  BY <1>1, <1>4, TakeStep DEF GxidInv
<1>5. ASSUME NEW p \in Proc, BumpLimit(p) \/ PutNextGxid(p) \/ FlushNextGxid(p) \/ BumpCount(p)
      PROVE  GxidInv'
  BY <1>1, <1>5, BumpLimitStep, PutStep, FlushStep, BumpCountStep DEF GxidInv
<1>6. CASE Checkpoint
  BY <1>1, <1>6, CkptSetRedoStep, CkptReadStep, CkptWriteStep DEF GxidInv, Checkpoint
<1>7. CASE XLogBackgroundFlush \/ Crash \/ ShutdownCheckpoint \/ StartupXLOG
  BY <1>1, <1>7, BackgroundFlushStep, CrashStep, ShutdownStep, StartupStep DEF GxidInv
<1> QED
  BY <1>3, <1>4, <1>5, <1>6, <1>7 DEF Next, Activate, bumpGxid

-----------------------------------------------------------------------------
(* The types of the counters, the batch and the log (cdbtm.c, xlog.c) are  *)
(* kept for every number of backends, crashes and checkpoints, and with    *)
(* them the invariant the other theorems rest on.                          *)
THEOREM GxidInvariance == Spec => []GxidInv
<1>1. Init => GxidInv
  BY GxidInitInv
<1>2. GxidInv /\ [Next]_vars => GxidInv'
  BY GxidStep
<1> QED BY <1>1, <1>2, PTL DEF Spec

(* Type correctness. *)
THEOREM GxidTypeCorrect == Spec => []TypeOK
<1>1. GxidInv => TypeOK
  BY DEF GxidInv
<1> QED BY <1>1, GxidInvariance, PTL

(* Wherever a crash cuts the log, StartupXLOG() begins above every gxid    *)
(* that was ever handed out.                                               *)
THEOREM RestartsAbove == Spec => []RestartAbove
<1>1. GxidInv => RestartAbove
  <2> SUFFICES ASSUME GxidInv, NEW end \in flushLsn .. insertLsn,
                      NEW g \in {ckpt.nextGxid} \cup {r.limit : r \in wal},
                      IsRestartGxid(g, end), NEW h \in handed
               PROVE  h < g
    BY DEF RestartAbove
  <2>1. nextGxid <= g
    BY StartAbove
  <2>2. h < nextGxid
    BY DEF GxidInv, GxidCore, HandedBelow
  <2>3. h \in Nat /\ nextGxid \in Nat /\ g \in Nat
    BY DEF GxidInv, TypeOK, Record
  <2> QED BY <2>1, <2>2, <2>3
<1> QED BY <1>1, GxidInvariance, PTL

(* currentDtxActivate() never hands out a gxid twice, whatever crashes,    *)
(* shutdowns and checkpoints come between.                                 *)
THEOREM GxidsUnique == Spec => GxidUnique
<1> DEFINE Fresh == \A b \in Backend : gxid'[b] # gxid[b] /\ gxid'[b] # 0 => gxid'[b] \notin handed
<1>1. GxidInv /\ [Next]_vars => [Fresh]_vars
  <2> SUFFICES ASSUME GxidInv, Next, NEW b \in Backend, gxid'[b] # gxid[b], gxid'[b] # 0
               PROVE  gxid'[b] \notin handed
    OBVIOUS
  <2>1. gxid \in [Backend -> Nat] /\ nextGxid \in Nat
    BY DEF GxidInv, TypeOK
  <2>2. nextGxid \notin handed
    BY <2>1 DEF GxidInv, GxidCore, HandedBelow
  <2>3. ASSUME NEW c \in Backend, TakeGxid(c) PROVE gxid'[b] \notin handed
    <3>1. gxid' = gxid \/ gxid' = [gxid EXCEPT ![c] = nextGxid]
      BY <2>3 DEF TakeGxid
    <3> QED BY <2>1, <2>2, <3>1
  <2>4. ASSUME NEW c \in Backend, EndGxact(c) PROVE FALSE
    <3>1. gxid' = [gxid EXCEPT ![c] = 0]
      BY <2>4 DEF EndGxact
    <3> QED BY <2>1, <3>1
  <2>5. CASE Crash \/ ShutdownCheckpoint
    <3>1. gxid' = [c \in Backend |-> 0]
      BY <2>5 DEF Crash, ShutdownCheckpoint, Stopped
    <3> QED BY <3>1
  <2>6. CASE gxid' = gxid
    BY <2>6
  <2>7. ASSUME NEW c \in Backend, StartActivate(c) \/ TestCount(c) PROVE gxid' = gxid
    BY <2>7 DEF StartActivate, TestCount
  <2>8. ASSUME NEW p \in Proc, bumpGxid(p) PROVE gxid' = gxid
    BY <2>8 DEF bumpGxid, BumpBlocked, BumpWaited, BumpLimit, PutNextGxid, FlushNextGxid, BumpCount
  <2>9. CASE Recovery \/ Checkpoint \/ XLogBackgroundFlush \/ StartupXLOG
    BY <2>6, <2>9 DEF Recovery, DtxRecoveryWakes, ResetDtxRecoveryEvent, Checkpoint, CkptSetRedo,
       CkptReadGxid, CkptWrite, XLogBackgroundFlush, StartupXLOG, procVars
  <2> QED BY <2>3, <2>4, <2>5, <2>6, <2>7, <2>8, <2>9 DEF Next, Activate
<1> QED BY <1>1, GxidInvariance, PTL DEF Spec, GxidUnique
=============================================================================
