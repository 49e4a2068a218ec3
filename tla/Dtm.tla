-------------------------------- MODULE Dtm ---------------------------------
(***************************************************************************)
(* The distributed transaction manager: for every distributed transaction  *)
(* one QD backend on the coordinator that runs the two-phase (or one-      *)
(* phase) commit, the QEs of its gang on the segments, connections that    *)
(* break under a command and leave the QE behind with it, segments that    *)
(* restart, a coordinator that crashes, and the DTX recovery process that  *)
(* ends what the crash or a lost broadcast left prepared.  The             *)
(* coordinator's log and its checkpoints are those of DtxLog: each action  *)
(* that writes the log is the conjunction with the action there.           *)
(***************************************************************************)
EXTENDS DtxLog

CONSTANTS
    Segment,     \* content ids of the segments
    MaxFault     \* bound: broken connections, segment restarts, QE errors

ASSUME DtmAssumption == MaxFault \in Nat /\ Segment # {} /\ IsFiniteSet(Segment)

VARIABLES
    used,         \* gxids handed out
    procArray,    \* gxids of running transactions (IsDtxInProgress)
    dtxState,     \* MyTmGxactLocal->state
    dtxSegments,  \* MyTmGxactLocal->dtxSegments
    wrote,        \* segments whose QE reported to have written xlog
    gangLost,     \* MyTmGxactLocal->writerGangLost
    pending,      \* segments whose answer the QD still waits for
    failed,       \* a segment failed in the last broadcast
    told,         \* what the client was told
    onePhase,     \* history: transactions that chose the one-phase commit
    qe,           \* context of the QE of the session's writer gang
    local,        \* state of the transaction's part on the segment
    msgs,         \* protocol commands QEs have received and not yet run
    dtmStarted,   \* *shmDtmStarted
    recPc,        \* where the DTX recovery process is
    recGxid,      \* {g} while it broadcasts for g, else {}
    recPending,   \* segments it waits for
    recFailed,    \* a segment failed in its last broadcast
    inDoubt,      \* htab of gatherRMInDoubtTransactions()
    faults        \* counter of MaxFault

qdVars  == <<used, procArray, dtxState, dtxSegments, wrote, gangLost, pending, failed, told, onePhase>>
segVars == <<qe, local, msgs>>
dtrVars == <<dtmStarted, recPc, recGxid, recPending, recFailed, inDoubt>>
vars    == <<logVars, qdVars, segVars, dtrVars, faults>>

DtxState ==
    {"NONE", "ACTIVE_DISTRIBUTED", "ONE_PHASE_COMMIT", "NOTIFYING_ONE_PHASE_COMMIT",
     "PREPARING", "PREPARED", "INSERTING_COMMITTED", "INSERTED_COMMITTED",
     "NOTIFYING_COMMIT_PREPARED", "RETRY_COMMIT_PREPARED",
     "INSERTING_FORGET_COMMITTED", "INSERTED_FORGET_COMMITTED",
     "NOTIFYING_ABORT_NO_PREPARED", "NOTIFYING_ABORT_SOME_PREPARED",
     "NOTIFYING_ABORT_PREPARED", "RETRY_ABORT_PREPARED"}

CommitCmd == {"COMMIT_PREPARED", "RETRY_COMMIT_PREPARED", "RECOVERY_COMMIT_PREPARED"}
AbortCmd  == {"ABORT_PREPARED", "RETRY_ABORT_PREPARED", "RECOVERY_ABORT_PREPARED"}
DtxProtocolCommand ==
    {"PREPARE", "COMMIT_ONEPHASE", "ABORT_NO_PREPARED", "ABORT_SOME_PREPARED"}
        \cup CommitCmd \cup AbortCmd
RecoveryCmd == {"RECOVERY_COMMIT_PREPARED", "RECOVERY_ABORT_PREPARED"}

\* DTX_CONTEXT_LOCAL_ONLY, _QE_TWO_PHASE_*_WRITER and _QE_PREPARED; "dead"
\* when the connection to the QE is broken.
QEContext == {"LOCAL_ONLY", "WRITER", "PREPARED", "dead"}
LocalState == {"none", "active", "prepared", "committed", "aborted"}

\* live: the sender waits for the answer over a working connection.
Message == [gxid : Gxid, seg : Segment, cmd : DtxProtocolCommand, live : BOOLEAN]

TypeOK ==
    /\ LogTypeOK
    /\ used \subseteq Gxid
    /\ procArray \subseteq Gxid
    /\ dtxState \in [Gxid -> DtxState]
    /\ dtxSegments \in [Gxid -> SUBSET Segment]
    /\ wrote \in [Gxid -> SUBSET Segment]
    /\ gangLost \subseteq Gxid
    /\ pending \in [Gxid -> SUBSET Segment]
    /\ failed \subseteq Gxid
    /\ told \in [Gxid -> {"none", "commit", "abort"}]
    /\ onePhase \subseteq Gxid
    /\ qe \in [Gxid -> [Segment -> QEContext]]
    /\ local \in [Gxid -> [Segment -> LocalState]]
    /\ msgs \subseteq Message
    /\ dtmStarted \in BOOLEAN
    /\ recPc \in {"down", "commit", "gather", "abort"}
    /\ recGxid \subseteq Gxid
    /\ recPending \subseteq Segment
    /\ recFailed \in BOOLEAN
    /\ inDoubt \subseteq Gxid
    /\ faults \in 0 .. MaxFault

Init ==
    /\ LogInit
    /\ used = {}
    /\ procArray = {}
    /\ dtxState = [g \in Gxid |-> "NONE"]
    /\ dtxSegments = [g \in Gxid |-> {}]
    /\ wrote = [g \in Gxid |-> {}]
    /\ gangLost = {}
    /\ pending = [g \in Gxid |-> {}]
    /\ failed = {}
    /\ told = [g \in Gxid |-> "none"]
    /\ onePhase = {}
    /\ qe = [g \in Gxid |-> [s \in Segment |-> "LOCAL_ONLY"]]
    /\ local = [g \in Gxid |-> [s \in Segment |-> "none"]]
    /\ msgs = {}
    /\ dtmStarted = FALSE
    /\ recPc = "commit"
    /\ recGxid = {}
    /\ recPending = {}
    /\ recFailed = FALSE
    /\ inDoubt = {}
    /\ faults = 0

-----------------------------------------------------------------------------
(* Sending a protocol command to the segments T and waiting for all        *)
(* answers: doDispatchDtxProtocolCommand(), CdbDispatchDtxProtocolCommand().*)

Commands(g, T, cmd) ==
    {[gxid |-> g, seg |-> s, cmd |-> cmd, live |-> TRUE] : s \in T}

\* Over the session's own writer gang: a broken connection is noticed now.
Dispatch(g, T, cmd) ==
    LET alive == {s \in T : qe[g][s] # "dead"} IN
    /\ msgs' = msgs \cup Commands(g, alive, cmd)
    /\ pending' = [pending EXCEPT ![g] = alive]
    /\ failed' = IF alive = T THEN failed \ {g} ELSE failed \cup {g}
    /\ gangLost' = IF alive = T THEN gangLost ELSE gangLost \cup {g}
    /\ UNCHANGED qe

\* ResetAllGangs(): the QEs of the session are abandoned.
ResetAllGangs(g) == qe' = [qe EXCEPT ![g] = [s \in Segment |-> "LOCAL_ONLY"]]

\* Over a new gang, after ResetAllGangs().
DispatchNewGang(g, T, cmd) ==
    /\ ResetAllGangs(g)
    /\ msgs' = msgs \cup Commands(g, T, cmd)
    /\ pending' = [pending EXCEPT ![g] = T]
    /\ failed' = failed \ {g}
    /\ UNCHANGED gangLost

Answered(g)  == pending[g] = {}
Succeeded(g) == Answered(g) /\ g \notin failed
Failed(g)    == Answered(g) /\ g \in failed

\* ProcArrayEndTransaction(), resetTmGxact() and the answer to the client.
EndDtx(g, answer) ==
    /\ dtxState' = [dtxState EXCEPT ![g] = "NONE"]
    /\ procArray' = procArray \ {g}
    /\ told' = [told EXCEPT ![g] = answer]

SetState(g, state) == dtxState' = [dtxState EXCEPT ![g] = state]

-----------------------------------------------------------------------------
(* The QD: start, statements, commit.                                      *)

\* setupDtxTransaction(), currentDtxActivate().  Sessions wait for the end of
\* DTM recovery.
currentDtxActivate(g) ==
    /\ up /\ dtmStarted
    /\ g \notin used
    /\ used' = used \cup {g}
    /\ procArray' = procArray \cup {g}
    /\ SetState(g, "ACTIVE_DISTRIBUTED")
    /\ UNCHANGED <<logVars, dtxSegments, wrote, gangLost, pending, failed, told, onePhase,
                   segVars, dtrVars, faults>>
\* Fault: the entry db (content id -1) is recorded as a segment.
EntryDbAdded(g, s, writes) ==
    /\ up
    /\ dtxState[g] = "ACTIVE_DISTRIBUTED"
    /\ s \notin dtxSegments[g]
    /\ dtxSegments' = [dtxSegments EXCEPT ![g] = @ \cup {s, -1}]
    /\ UNCHANGED <<logVars, used, procArray, dtxState, wrote, gangLost, pending, failed, told,
                   onePhase, segVars, dtrVars, faults>>

\* A statement runs on segment s and writes xlog there or not.
addToGxactDtxSegments(g, s, writes) ==
    /\ up
    /\ dtxState[g] = "ACTIVE_DISTRIBUTED"
    /\ g \notin gangLost
    /\ \A t \in dtxSegments[g] : qe[g][t] = "WRITER"
    /\ s \notin dtxSegments[g] \/ (writes /\ s \notin wrote[g])
    /\ dtxSegments' = [dtxSegments EXCEPT ![g] = @ \cup {s}]
    /\ wrote' = IF writes THEN [wrote EXCEPT ![g] = @ \cup {s}] ELSE wrote
    /\ local' = [local EXCEPT ![g][s] = "active"]
    /\ qe' = [qe EXCEPT ![g][s] = "WRITER"]
    /\ UNCHANGED <<logVars, used, procArray, dtxState, gangLost, pending, failed, told, onePhase,
                   msgs, dtrVars, faults>>
\* Fault: two segments are taken for one.
OnePhaseOffByOne(g, markXidCommitted) ==
    \/ wrote[g] = {}
    \/ ~ markXidCommitted /\ Cardinality(dtxSegments[g]) <= 2

\* prepareDtxTransaction(): no executor wrote, or neither the QD has an xid
\* nor more than one segment took part.
OnePhase(g, markXidCommitted) ==
    \/ wrote[g] = {}
    \/ ~ markXidCommitted /\ Cardinality(dtxSegments[g]) < 2

doNotifyingOnePhaseCommit(g, markXidCommitted) ==
    /\ up
    /\ dtxState[g] = "ACTIVE_DISTRIBUTED"
    /\ OnePhase(g, markXidCommitted)
    /\ onePhase' = onePhase \cup {g}
    /\ IF dtxSegments[g] = {}
       THEN /\ SetState(g, "ONE_PHASE_COMMIT")
            /\ UNCHANGED <<gangLost, pending, failed, segVars>>
       ELSE /\ SetState(g, "NOTIFYING_ONE_PHASE_COMMIT")
            /\ Dispatch(g, dtxSegments[g], "COMMIT_ONEPHASE")
            /\ UNCHANGED local
    /\ UNCHANGED <<logVars, used, procArray, dtxSegments, wrote, told, dtrVars, faults>>

EndOnePhase(g) ==
    /\ up
    /\ dtxState[g] \in {"ONE_PHASE_COMMIT", "NOTIFYING_ONE_PHASE_COMMIT"}
    /\ Succeeded(g)
    /\ EndDtx(g, "commit")
    /\ UNCHANGED <<logVars, used, dtxSegments, wrote, gangLost, pending, failed, onePhase,
                   segVars, dtrVars, faults>>

doPrepareTransaction(g, markXidCommitted) ==
    /\ up
    /\ dtxState[g] = "ACTIVE_DISTRIBUTED"
    /\ ~ OnePhase(g, markXidCommitted)
    /\ SetState(g, "PREPARING")
    /\ Dispatch(g, dtxSegments[g], "PREPARE")
    /\ UNCHANGED <<logVars, used, procArray, dtxSegments, wrote, told, onePhase, local, dtrVars,
                   faults>>

PrepareSucceeded(g) ==
    /\ up
    /\ dtxState[g] = "PREPARING"
    /\ Succeeded(g)
    /\ SetState(g, "PREPARED")
    /\ UNCHANGED <<logVars, used, procArray, dtxSegments, wrote, gangLost, pending, failed, told,
                   onePhase, segVars, dtrVars, faults>>

\* RecordTransactionCommit() on the QD, step by step (see DtxLog).
RecordCommit(g) ==
    /\ \/ dtxState[g] = "PREPARED" /\ SetDelayChkpt(g) /\ UNCHANGED dtxState
       \/ /\ dtxState[g] = "PREPARED"
          /\ insertingDistributedCommitted(g)
          /\ SetState(g, "INSERTING_COMMITTED")
       \/ /\ dtxState[g] = "INSERTING_COMMITTED"
          /\ insertedDistributedCommitted(g)
          /\ SetState(g, "INSERTED_COMMITTED")
       \/ dtxState[g] = "INSERTED_COMMITTED" /\ FlushCommitRecord(g) /\ UNCHANGED dtxState
    /\ UNCHANGED <<used, procArray, dtxSegments, wrote, gangLost, pending, failed, told, onePhase,
                   segVars, dtrVars, faults>>
\* Fault: the segments are notified before the commit record is flushed.
NotifyBeforeFlush(g) ==
    /\ up
    /\ dtxState[g] = "INSERTED_COMMITTED"
    /\ SetState(g, "NOTIFYING_COMMIT_PREPARED")
    /\ Dispatch(g, dtxSegments[g], "COMMIT_PREPARED")
    /\ UNCHANGED <<logVars, used, procArray, dtxSegments, wrote, told, onePhase, local, dtrVars,
                   faults>>

doNotifyingCommitPrepared(g) ==
    /\ up
    /\ dtxState[g] = "INSERTED_COMMITTED"
    /\ g \notin delayChkpt
    /\ SetState(g, "NOTIFYING_COMMIT_PREPARED")
    /\ Dispatch(g, dtxSegments[g], "COMMIT_PREPARED")
    /\ UNCHANGED <<logVars, used, procArray, dtxSegments, wrote, told, onePhase, local, dtrVars,
                   faults>>
\* The retry loop; when dtx_phase2_retry_second has passed the QD panics,
\* which is a Crash.
RetryCommitPrepared(g) ==
    /\ up
    /\ dtxState[g] \in {"NOTIFYING_COMMIT_PREPARED", "RETRY_COMMIT_PREPARED"}
    /\ Failed(g)
    /\ SetState(g, "RETRY_COMMIT_PREPARED")
    /\ DispatchNewGang(g, dtxSegments[g], "RETRY_COMMIT_PREPARED")
    /\ UNCHANGED <<logVars, used, procArray, dtxSegments, wrote, told, onePhase, local, dtrVars,
                   faults>>
\* Fault: the result of the broadcast is not looked at.
ForgetThoughFailed(g) ==
    /\ \/ /\ dtxState[g] \in {"NOTIFYING_COMMIT_PREPARED", "RETRY_COMMIT_PREPARED"}
          /\ Answered(g)
          /\ RecordDistributedForgetCommitted(g)
          /\ SetState(g, "INSERTING_FORGET_COMMITTED")
       \/ /\ dtxState[g] = "INSERTING_FORGET_COMMITTED"
          /\ ClearIncludeInCkpt(g)
          /\ SetState(g, "INSERTED_FORGET_COMMITTED")
    /\ UNCHANGED <<used, procArray, dtxSegments, wrote, gangLost, pending, failed, told, onePhase,
                   segVars, dtrVars, faults>>

doInsertForgetCommitted(g) ==
    /\ \/ /\ dtxState[g] \in {"NOTIFYING_COMMIT_PREPARED", "RETRY_COMMIT_PREPARED"}
          /\ Succeeded(g)
          /\ RecordDistributedForgetCommitted(g)
          /\ SetState(g, "INSERTING_FORGET_COMMITTED")
       \/ /\ dtxState[g] = "INSERTING_FORGET_COMMITTED"
          /\ ClearIncludeInCkpt(g)
          /\ SetState(g, "INSERTED_FORGET_COMMITTED")
    /\ UNCHANGED <<used, procArray, dtxSegments, wrote, gangLost, pending, failed, told, onePhase,
                   segVars, dtrVars, faults>>
\* Fault: the transaction is ended while its segments are being notified.
EndBeforeAnswers(g) ==
    /\ up
    /\ dtxState[g] \in {"NOTIFYING_COMMIT_PREPARED", "INSERTED_FORGET_COMMITTED"}
    /\ EndDtx(g, "commit")
    /\ UNCHANGED <<logVars, used, dtxSegments, wrote, gangLost, pending, failed, onePhase,
                   segVars, dtrVars, faults>>

EndTwoPhase(g) ==
    /\ up
    /\ dtxState[g] = "INSERTED_FORGET_COMMITTED"
    /\ EndDtx(g, "commit")
    /\ UNCHANGED <<logVars, used, dtxSegments, wrote, gangLost, pending, failed, onePhase,
                   segVars, dtrVars, faults>>

-----------------------------------------------------------------------------
(* The QD: AbortTransaction(), AtAbort_DispatcherState() and               *)
(* rollbackDtxTransaction().                                               *)

\* The error that starts the rollback: any while statements run, a failed
\* broadcast, or one between PREPARED and the commit critical section.
Rollbackable(g) ==
    /\ up
    /\ Answered(g)
    /\ \/ dtxState[g] \in {"ACTIVE_DISTRIBUTED", "ONE_PHASE_COMMIT", "NOTIFYING_ONE_PHASE_COMMIT"}
       \/ dtxState[g] = "PREPARING" /\ g \in failed
       \/ dtxState[g] = "PREPARED" /\ g \notin delayChkpt

\* Nothing dispatched, or the gang is lost: the broadcast is omitted.
RollbackOmitted(g) ==
    /\ Rollbackable(g)
    /\ dtxState[g] \in {"ACTIVE_DISTRIBUTED", "ONE_PHASE_COMMIT", "NOTIFYING_ONE_PHASE_COMMIT"}
    /\ dtxSegments[g] = {} \/ g \in gangLost
    /\ EndDtx(g, "abort")
    /\ ResetAllGangs(g)
    /\ UNCHANGED <<logVars, used, dtxSegments, wrote, gangLost, pending, failed, onePhase,
                   local, msgs, dtrVars, faults>>

\* The session's process exits (FATAL) where elog.c does not make it a PANIC.
QdExit(g) ==
    /\ Rollbackable(g)
    /\ dtxState[g] \in {"ACTIVE_DISTRIBUTED", "ONE_PHASE_COMMIT", "NOTIFYING_ONE_PHASE_COMMIT"}
    /\ EndDtx(g, told[g])
    /\ ResetAllGangs(g)
    /\ UNCHANGED <<logVars, used, dtxSegments, wrote, gangLost, pending, failed, onePhase,
                   local, msgs, dtrVars, faults>>

doNotifyingAbort(g) ==
    /\ Rollbackable(g)
    /\ \/ /\ dtxState[g] \in {"ACTIVE_DISTRIBUTED", "ONE_PHASE_COMMIT", "NOTIFYING_ONE_PHASE_COMMIT"}
          /\ dtxSegments[g] # {} /\ g \notin gangLost
          /\ SetState(g, "NOTIFYING_ABORT_NO_PREPARED")
          /\ Dispatch(g, dtxSegments[g], "ABORT_NO_PREPARED")
       \/ /\ dtxState[g] = "PREPARING" /\ g \notin gangLost
          /\ SetState(g, "NOTIFYING_ABORT_SOME_PREPARED")
          /\ Dispatch(g, dtxSegments[g], "ABORT_SOME_PREPARED")
       \/ /\ dtxState[g] = "PREPARED"
          /\ SetState(g, "NOTIFYING_ABORT_PREPARED")
          /\ Dispatch(g, dtxSegments[g], "ABORT_PREPARED")
    /\ UNCHANGED <<logVars, used, procArray, dtxSegments, wrote, told, onePhase, local, dtrVars,
                   faults>>
\* Fault: ResetAllGangs() is left out, the retry goes to the old gang.
RetryAbortOverOldGang(g) ==
    /\ up
    /\ Failed(g)
    /\ \/ dtxState[g] = "PREPARING" /\ g \in gangLost
       \/ dtxState[g] \in {"NOTIFYING_ABORT_SOME_PREPARED", "NOTIFYING_ABORT_PREPARED",
                           "RETRY_ABORT_PREPARED"}
    /\ SetState(g, "RETRY_ABORT_PREPARED")
    /\ dtxSegments' = [dtxSegments EXCEPT ![g] = Segment]
    /\ Dispatch(g, Segment, "RETRY_ABORT_PREPARED")
    /\ UNCHANGED <<logVars, used, procArray, wrote, told, onePhase, local, dtrVars, faults>>

retryAbortPrepared(g) ==
    /\ up
    /\ Failed(g)
    /\ \/ dtxState[g] = "PREPARING" /\ g \in gangLost
       \/ dtxState[g] \in {"NOTIFYING_ABORT_SOME_PREPARED", "NOTIFYING_ABORT_PREPARED",
                           "RETRY_ABORT_PREPARED"}
    /\ SetState(g, "RETRY_ABORT_PREPARED")
    /\ dtxSegments' = [dtxSegments EXCEPT ![g] = Segment]
    /\ DispatchNewGang(g, Segment, "RETRY_ABORT_PREPARED")
    /\ UNCHANGED <<logVars, used, procArray, wrote, told, onePhase, local, dtrVars, faults>>

\* All segments answered, or (ABORT_NO_PREPARED) the gang is simply dropped,
\* or dtx_phase2_retry_second has passed (it may be 0) and the rest is left
\* to the DTX recovery process.  ResetAllGangs() is called on the last two
\* ways only; after a complete broadcast it changes nothing here, every QE
\* that has answered being LOCAL_ONLY already.
EndAbort(g) ==
    /\ up
    /\ Answered(g)
    /\ \/ dtxState[g] \in {"NOTIFYING_ABORT_NO_PREPARED", "NOTIFYING_ABORT_SOME_PREPARED",
                           "NOTIFYING_ABORT_PREPARED", "RETRY_ABORT_PREPARED"}
       \/ dtxState[g] = "PREPARING" /\ g \in failed \cap gangLost
    /\ EndDtx(g, "abort")
    /\ ResetAllGangs(g)
    /\ UNCHANGED <<logVars, used, dtxSegments, wrote, gangLost, pending, failed, onePhase,
                   local, msgs, dtrVars, faults>>

-----------------------------------------------------------------------------
(* The QE: performDtxProtocolCommand().                                    *)

\* The command is done; its sender, if it is still connected, gets the answer.
Reply(m, ok, context) ==
    /\ msgs' = msgs \ {m}
    /\ IF ~ m.live
       THEN UNCHANGED <<qe, pending, failed, recPending, recFailed>>
       ELSE IF m.cmd \in RecoveryCmd
       THEN /\ recPending' = recPending \ {m.seg}
            /\ recFailed' = (recFailed \/ ~ ok)
            /\ UNCHANGED <<qe, pending, failed>>
       ELSE /\ qe' = [qe EXCEPT ![m.gxid][m.seg] = context]
            /\ pending' = [pending EXCEPT ![m.gxid] = @ \ {m.seg}]
            /\ failed' = IF ok THEN failed ELSE failed \cup {m.gxid}
            /\ UNCHANGED <<recPending, recFailed>>
    /\ UNCHANGED <<logVars, used, procArray, dtxState, dtxSegments, wrote, gangLost, told, onePhase,
                   dtmStarted, recPc, recGxid, inDoubt>>

SetLocal(m, state) == local' = [local EXCEPT ![m.gxid][m.seg] = state]

performDtxProtocolPrepare(m) ==
    /\ m.cmd = "PREPARE"
    /\ local[m.gxid][m.seg] = "active"
    /\ \/ SetLocal(m, "prepared") /\ Reply(m, TRUE, "PREPARED")
       \/ SetLocal(m, "aborted")  /\ Reply(m, FALSE, "LOCAL_ONLY")
    /\ UNCHANGED faults

performDtxProtocolCommitOnePhase(m) ==
    /\ m.cmd = "COMMIT_ONEPHASE"
    /\ local[m.gxid][m.seg] = "active"
    /\ \/ SetLocal(m, "committed") /\ Reply(m, TRUE, "LOCAL_ONLY")
       \/ SetLocal(m, "aborted")   /\ Reply(m, FALSE, "LOCAL_ONLY")
    /\ UNCHANGED faults

\* ABORT_NO_PREPARED, and ABORT_SOME_PREPARED in a QE that has not prepared.
AbortOutOfAnyTransaction(m) ==
    /\ m.cmd \in {"ABORT_NO_PREPARED", "ABORT_SOME_PREPARED"}
    /\ local[m.gxid][m.seg] # "prepared"
    /\ IF local[m.gxid][m.seg] = "active" THEN SetLocal(m, "aborted") ELSE UNCHANGED local
    /\ Reply(m, TRUE, "LOCAL_ONLY")
    /\ UNCHANGED faults

\* FinishPreparedTransaction(); only COMMIT_PREPARED passes raiseErrorIfNotFound.
performDtxProtocolCommitPrepared(m) ==
    /\ m.cmd \in CommitCmd
    /\ IF local[m.gxid][m.seg] = "prepared"
       THEN SetLocal(m, "committed") /\ Reply(m, TRUE, "LOCAL_ONLY")
       ELSE UNCHANGED local /\ Reply(m, m.cmd # "COMMIT_PREPARED", "LOCAL_ONLY")
    /\ UNCHANGED faults

performDtxProtocolAbortPrepared(m) ==
    /\ \/ m.cmd \in AbortCmd
       \/ m.cmd = "ABORT_SOME_PREPARED" /\ local[m.gxid][m.seg] = "prepared"
    /\ IF local[m.gxid][m.seg] = "prepared"
       THEN SetLocal(m, "aborted") /\ Reply(m, TRUE, "LOCAL_ONLY")
       ELSE UNCHANGED local /\ Reply(m, m.cmd # "ABORT_PREPARED", "LOCAL_ONLY")
    /\ UNCHANGED faults

\* FinishPreparedTransaction() raises an error, e.g. another QE is busy with
\* the same transaction (LockGXact); the transaction stays prepared.
FinishPreparedError(m) ==
    /\ faults < MaxFault
    /\ faults' = faults + 1
    /\ m.cmd \in CommitCmd \cup AbortCmd
    /\ UNCHANGED local
    /\ Reply(m, FALSE, "LOCAL_ONLY")

performDtxProtocolCommand(m) ==
    \/ performDtxProtocolPrepare(m)
    \/ performDtxProtocolCommitOnePhase(m)
    \/ AbortOutOfAnyTransaction(m)
    \/ performDtxProtocolCommitPrepared(m)
    \/ performDtxProtocolAbortPrepared(m)
    \/ FinishPreparedError(m)

\* A QE whose client is gone finds that out before it runs the command.
AbandonCommand(m) ==
    /\ ~ m.live
    /\ msgs' = msgs \ {m}
    /\ UNCHANGED <<logVars, qdVars, qe, local, dtrVars, faults>>

\* A QE without client and command exits and aborts its open transaction.
QeExit(g, s) ==
    /\ local[g][s] = "active"
    /\ qe[g][s] # "WRITER"
    /\ ~ \E m \in msgs : m.gxid = g /\ m.seg = s /\ m.cmd \notin RecoveryCmd \cup
                              {"RETRY_ABORT_PREPARED", "RETRY_COMMIT_PREPARED"}
    /\ local' = [local EXCEPT ![g][s] = "aborted"]
    /\ UNCHANGED <<logVars, qdVars, qe, msgs, dtrVars, faults>>

-----------------------------------------------------------------------------
(* Failures.                                                               *)
\* Fault: the broken connection is not noticed, the sender waits on.
ConnectionLostUnnoticed(m) ==
    /\ m.live
    /\ faults < MaxFault
    /\ faults' = faults + 1
    /\ msgs' = (msgs \ {m}) \cup {[m EXCEPT !.live = FALSE]}
    /\ UNCHANGED <<logVars, qdVars, qe, local, dtrVars>>

\* The connection breaks while the QD (or the recovery process) waits: the
\* QE may still run the command.
LoseConnection(m) ==
    /\ m.live
    /\ faults < MaxFault
    /\ faults' = faults + 1
    /\ msgs' = (msgs \ {m}) \cup {[m EXCEPT !.live = FALSE]}
    /\ IF m.cmd \in RecoveryCmd
       THEN /\ recPending' = recPending \ {m.seg}
            /\ recFailed' = TRUE
            /\ UNCHANGED <<qe, pending, failed, gangLost>>
       ELSE /\ qe' = [qe EXCEPT ![m.gxid][m.seg] = "dead"]
            /\ pending' = [pending EXCEPT ![m.gxid] = @ \ {m.seg}]
            /\ failed' = failed \cup {m.gxid}
            /\ gangLost' = gangLost \cup {m.gxid}
            /\ UNCHANGED <<recPending, recFailed>>
    /\ UNCHANGED <<logVars, used, procArray, dtxState, dtxSegments, wrote, told, onePhase, local,
                   dtmStarted, recPc, recGxid, inDoubt>>

\* A segment restarts: its QEs are gone with their open transactions, what
\* it has prepared is still there.
SegmentRestart(s) ==
    LET hit == {m.gxid : m \in {n \in msgs : n.seg = s /\ n.live /\ n.cmd \notin RecoveryCmd}}
    IN
    /\ faults < MaxFault
    /\ faults' = faults + 1
    /\ msgs' = {m \in msgs : m.seg # s}
    /\ local' = [g \in Gxid |-> [local[g] EXCEPT ![s] = IF @ = "active" THEN "aborted" ELSE @]]
    /\ qe' = [g \in Gxid |-> [qe[g] EXCEPT ![s] = IF @ = "LOCAL_ONLY" /\ g \notin hit THEN @ ELSE "dead"]]
    /\ pending' = [g \in Gxid |-> pending[g] \ {s}]
    /\ failed' = failed \cup hit
    /\ gangLost' = gangLost \cup hit
    /\ recPending' = IF recPc = "gather" THEN recPending ELSE recPending \ {s}
    /\ recFailed' = (recFailed \/ (recPc # "gather" /\ s \in recPending))
    /\ UNCHANGED <<logVars, used, procArray, dtxState, dtxSegments, wrote, told, onePhase,
                   dtmStarted, recPc, recGxid, inDoubt>>

\* PANIC or crash of the coordinator, in any state.
CoordinatorCrash ==
    /\ Crash
    /\ procArray' = {}
    /\ dtxState' = [g \in Gxid |-> "NONE"]
    /\ gangLost' = {}
    /\ pending' = [g \in Gxid |-> {}]
    /\ failed' = {}
    /\ qe' = [g \in Gxid |-> [s \in Segment |-> "LOCAL_ONLY"]]
    /\ msgs' = {[m EXCEPT !.live = FALSE] : m \in msgs}
    /\ dtmStarted' = FALSE
    /\ recPc' = "down"
    /\ recGxid' = {}
    /\ recPending' = {}
    /\ recFailed' = FALSE
    /\ inDoubt' = {}
    /\ UNCHANGED <<used, dtxSegments, wrote, told, onePhase, local, faults>>

CoordinatorStartup ==
    /\ StartupXLOG
    /\ recPc' = "commit"
    /\ UNCHANGED <<qdVars, segVars, dtmStarted, recGxid, recPending, recFailed, inDoubt, faults>>

-----------------------------------------------------------------------------
(* The DTX recovery process: recoverTM(), then the loop of                 *)
(* DtxRecoveryMain() that aborts orphaned prepared transactions.           *)

RecDispatch(g, cmd) ==
    /\ recGxid' = {g}
    /\ recPending' = Segment
    /\ recFailed' = FALSE
    /\ msgs' = msgs \cup Commands(g, Segment, cmd)

doNotifyCommittedInDoubt(g) ==
    /\ up
    /\ recPc = "commit"
    /\ recGxid = {}
    /\ g \in shmCommitted \ recDone
    /\ RecDispatch(g, "RECOVERY_COMMIT_PREPARED")
    /\ UNCHANGED <<logVars, qdVars, qe, local, dtmStarted, recPc, inDoubt, faults>>

RecoveredCommit(g) ==
    /\ recPc = "commit"
    /\ recGxid = {g}
    /\ recPending = {}
    /\ ~ recFailed
    /\ RecoveryForget(g)
    /\ recGxid' = {}
    /\ UNCHANGED <<qdVars, segVars, dtmStarted, recPc, recPending, recFailed, inDoubt, faults>>

\* FATAL in doNotifyCommittedInDoubt(): postmaster starts the process again.
RecoveryFatal ==
    /\ recPc = "commit"
    /\ recGxid # {}
    /\ recPending = {}
    /\ recFailed
    /\ RecoveryRestart
    /\ recGxid' = {}
    /\ UNCHANGED <<qdVars, segVars, dtmStarted, recPc, recPending, recFailed, inDoubt, faults>>
\* All committed transactions are notified; gatherRMInDoubtTransactions() asks
\* every segment for its prepared transactions.
CommittedRecovered ==
    /\ recPc = "commit"
    /\ recGxid = {}
    /\ RecoveryClear
    /\ recPc' = "gather"
    /\ recPending' = Segment
    /\ UNCHANGED <<qdVars, segVars, dtmStarted, recGxid, recFailed, inDoubt, faults>>

gatherRMInDoubtTransactions(s) ==
    /\ up
    /\ recPc = "gather"
    /\ s \in recPending
    /\ inDoubt' = inDoubt \cup {g \in Gxid : local[g][s] = "prepared"}
    /\ recPending' = recPending \ {s}
    /\ recPc' = IF recPending = {s} THEN "abort" ELSE "gather"
    /\ UNCHANGED <<logVars, qdVars, segVars, dtmStarted, recGxid, recFailed, faults>>

\* The query failed on a segment: recoverTM() starts over, the loop takes the
\* next round.
GatherFailed ==
    /\ up
    /\ recPc = "gather"
    /\ faults < MaxFault
    /\ faults' = faults + 1
    /\ inDoubt' = {}
    /\ recPending' = Segment
    /\ UNCHANGED <<logVars, qdVars, segVars, dtmStarted, recPc, recGxid, recFailed>>
\* Fault: the orphan check does not ask IsDtxInProgress().
AbortWithoutCheck(g) ==
    /\ up
    /\ recPc = "abort"
    /\ recGxid = {}
    /\ g \in inDoubt
    /\ RecDispatch(g, "RECOVERY_ABORT_PREPARED")
    /\ UNCHANGED <<logVars, qdVars, qe, local, dtmStarted, recPc, inDoubt, faults>>

\* abortRMInDoubtTransactions() during recovery, abortOrphanedTransactions()
\* afterwards.
doAbortInDoubt(g) ==
    /\ up
    /\ recPc = "abort"
    /\ recGxid = {}
    /\ g \in inDoubt
    /\ ~ dtmStarted \/ g \notin procArray
    /\ RecDispatch(g, "RECOVERY_ABORT_PREPARED")
    /\ UNCHANGED <<logVars, qdVars, qe, local, dtmStarted, recPc, inDoubt, faults>>

SkipInProgress(g) ==
    /\ up
    /\ recPc = "abort"
    /\ recGxid = {}
    /\ g \in inDoubt
    /\ dtmStarted /\ g \in procArray
    /\ inDoubt' = inDoubt \ {g}
    /\ UNCHANGED <<logVars, qdVars, segVars, dtmStarted, recPc, recGxid, recPending, recFailed, faults>>

\* A failure is only logged.
AbortedInDoubt(g) ==
    /\ up
    /\ recPc = "abort"
    /\ recGxid = {g}
    /\ recPending = {}
    /\ recGxid' = {}
    /\ recFailed' = FALSE
    /\ inDoubt' = inDoubt \ {g}
    /\ UNCHANGED <<logVars, qdVars, segVars, dtmStarted, recPc, recPending, faults>>
\* Fault: the loop does not ask the segments again.
RoundWithoutGather ==
    /\ up
    /\ recPc = "abort"
    /\ recGxid = {}
    /\ inDoubt = {}
    /\ dtmStarted' = TRUE
    /\ UNCHANGED <<logVars, qdVars, segVars, recPc, recGxid, recPending, recFailed, inDoubt, faults>>

\* *shmDtmStarted = true after the first round; then the next round.
RoundDone ==
    /\ up
    /\ recPc = "abort"
    /\ recGxid = {}
    /\ inDoubt = {}
    /\ dtmStarted' = TRUE
    /\ recPc' = "gather"
    /\ recPending' = Segment
    /\ UNCHANGED <<logVars, qdVars, segVars, recGxid, recFailed, inDoubt, faults>>

-----------------------------------------------------------------------------
\* Steps of the log that involve no transaction's backend.
BackgroundLog ==
    /\ \/ XLogBackgroundFlush
       \/ CkptSetRedo
       \/ CkptGetDelaying
       \/ CkptWaited
       \/ getDtxCheckPointInfo
       \/ CkptWrite
    /\ UNCHANGED <<qdVars, segVars, dtrVars, faults>>

QdCommits(g) ==
    \/ EndOnePhase(g)
    \/ PrepareSucceeded(g)
    \/ RecordCommit(g)
    \/ doNotifyingCommitPrepared(g)
    \/ RetryCommitPrepared(g)
    \/ doInsertForgetCommitted(g)
    \/ EndTwoPhase(g)

QdAborts(g) ==
    \/ RollbackOmitted(g)
    \/ doNotifyingAbort(g)
    \/ retryAbortPrepared(g)
    \/ EndAbort(g)

User(g) ==
    \/ currentDtxActivate(g)
    \/ \E s \in Segment, writes \in BOOLEAN : addToGxactDtxSegments(g, s, writes)
    \/ \E xid \in BOOLEAN : doNotifyingOnePhaseCommit(g, xid) \/ doPrepareTransaction(g, xid)

RecoveryProcess ==
    \/ \E g \in Gxid :
          \/ doNotifyCommittedInDoubt(g)
          \/ RecoveredCommit(g)
          \/ doAbortInDoubt(g)
          \/ SkipInProgress(g)
          \/ AbortedInDoubt(g)
    \/ RecoveryFatal
    \/ CommittedRecovered
    \/ \E s \in Segment : gatherRMInDoubtTransactions(s)
    \/ RoundDone

QeRuns(g, s) ==
    \/ \E m \in msgs : /\ m.gxid = g /\ m.seg = s
                       /\ performDtxProtocolCommand(m) \/ AbandonCommand(m)
    \/ QeExit(g, s)

Next ==
    \/ \E g \in Gxid : User(g) \/ QdCommits(g) \/ QdAborts(g) \/ QdExit(g)
    \/ \E g \in Gxid, s \in Segment : QeRuns(g, s)
    \/ RecoveryProcess
    \/ BackgroundLog
    \/ \E m \in msgs : LoseConnection(m)
    \/ \E s \in Segment : SegmentRestart(s)
    \/ GatherFailed
    \/ CoordinatorCrash
    \/ CoordinatorStartup

Spec == Init /\ [][Next]_vars

(***************************************************************************)
(* Fairness.  A backend that is not waiting for its user, a QE with a      *)
(* command or without client, the DTX recovery process and the postmaster  *)
(* that restarts the coordinator are scheduled by the operating system and *)
(* do their next step.  Nothing is assumed of users, of the checkpointer   *)
(* or of failures (whose number the bounds limit).                         *)
(***************************************************************************)
Fairness ==
    /\ \A g \in Gxid :
          WF_vars((dtxState[g] # "ACTIVE_DISTRIBUTED") /\ (QdCommits(g) \/ QdAborts(g)))
    /\ \A g \in Gxid, s \in Segment : WF_vars(QeRuns(g, s))
    /\ WF_vars(RecoveryProcess)
    /\ WF_vars(CoordinatorStartup)

FairSpec == Spec /\ Fairness

-----------------------------------------------------------------------------
(***************************************************************************)
(* Atomicity: no two segments that wrote for a transaction end it in       *)
(* different ways, whatever commands were lost, repeated or run late by a  *)
(* QE nobody listens to, and whoever crashed in between.                   *)
(***************************************************************************)
Atomicity ==
    \A g \in Gxid : \A s, t \in wrote[g] :
        ~ (local[g][s] = "committed" /\ local[g][t] = "aborted")

(***************************************************************************)
(* AnswerHolds: after COMMIT was acknowledged every segment that wrote has *)
(* committed; after a two-phase transaction was reported as aborted no     *)
(* segment has committed it, and no late command ever will.                *)
(***************************************************************************)
AnswerHolds ==
    \A g \in Gxid :
        /\ told[g] = "commit" => \A s \in wrote[g] : local[g][s] = "committed"
        /\ told[g] = "abort" /\ g \notin onePhase =>
              /\ ~ HasCommit(g)
              /\ \A s \in Segment : local[g][s] # "committed"

(***************************************************************************)
(* NoAbortOfCommitted: a rollback command, on its way or left behind in a  *)
(* QE, never meets a prepared part of a transaction whose commit record is *)
(* in the coordinator's log.  It is what IsDtxInProgress() and the order   *)
(* of recoverInDoubtTransactions() are for: the set of in-doubt            *)
(* transactions is old by the time the recovery process uses it.           *)
(***************************************************************************)
NoAbortOfCommitted ==
    \A m \in msgs :
        m.cmd \in AbortCmd \cup {"ABORT_SOME_PREPARED", "ABORT_NO_PREPARED"} /\ HasCommit(m.gxid)
            => local[m.gxid][m.seg] # "prepared"

(***************************************************************************)
(* ContextAccepted: the QE that gets a command is in the context           *)
(* performDtxProtocolCommand() requires, so that neither a FATAL of the    *)
(* QE nor a "not found" error stems from the protocol itself.              *)
(***************************************************************************)
ContextAccepted ==
    \A m \in msgs : m.live =>
        LET context == qe[m.gxid][m.seg] IN
        CASE m.cmd \in {"PREPARE", "COMMIT_ONEPHASE"} -> context = "WRITER"
          [] m.cmd \in {"COMMIT_PREPARED", "ABORT_PREPARED"} ->
                context = "PREPARED" /\ local[m.gxid][m.seg] = "prepared"
          [] m.cmd \in {"RETRY_COMMIT_PREPARED", "RETRY_ABORT_PREPARED"} -> context = "LOCAL_ONLY"
          [] OTHER -> TRUE

(***************************************************************************)
(* InProgressUntilCommitted: a transaction whose commit record is in the   *)
(* log leaves the array of running transactions only when all its segments *)
(* have committed; then, and only then, may the orphan check find it "not  *)
(* in progress".                                                           *)
(***************************************************************************)
InProgressUntilCommitted ==
    dtmStarted => \A g \in Gxid :
        HasCommit(g) /\ g \notin procArray => \A s \in dtxSegments[g] : local[g][s] = "committed"

(***************************************************************************)
(* InDoubtResolved: a transaction prepared on a segment is eventually      *)
(* committed or rolled back there, be it by its QD, by the recovery after  *)
(* a crash or by the orphan check.                                         *)
(***************************************************************************)
InDoubtResolved ==
    \A g \in Gxid, s \in Segment :
        local[g][s] = "prepared" ~> local[g][s] \in {"committed", "aborted"}

(***************************************************************************)
(* CommitEnds: a backend that has started to commit or to roll back does   *)
(* not hang: its transaction leaves the array of running transactions.     *)
(***************************************************************************)
CommitEnds ==
    \A g \in Gxid : dtxState[g] \notin {"NONE", "ACTIVE_DISTRIBUTED"} ~> g \notin procArray

-----------------------------------------------------------------------------
(* The promise of AtomicCommit, of the segments that wrote.                *)
part == [g \in Gxid |-> [s \in Segment |->
           IF s \notin wrote[g] THEN "none"
           ELSE IF local[g][s] = "active" THEN "working" ELSE local[g][s]]]
decided == {g \in Gxid : Durable(g)}

AC == INSTANCE AtomicCommit WITH part <- part, decided <- decided, answer <- told

(***************************************************************************)
(* ImplementsAtomicCommit: every step is a step of AtomicCommit or leaves  *)
(* what the segments hold, what is decided and what was told unchanged.    *)
(***************************************************************************)
ImplementsAtomicCommit == AC!ACSpec
=============================================================================
