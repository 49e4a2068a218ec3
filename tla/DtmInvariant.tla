---------------------------- MODULE DtmInvariant ----------------------------
(***************************************************************************)
(* The inductive invariant of Dtm: what a backend's state says of the log, *)
(* of the segments and of the commands that are still somewhere in a QE.   *)
(***************************************************************************)
EXTENDS Dtm

\* From the insertion of the commit record to the end of the transaction.
Committing ==
    {"INSERTING_COMMITTED", "INSERTED_COMMITTED", "NOTIFYING_COMMIT_PREPARED",
     "RETRY_COMMIT_PREPARED", "INSERTING_FORGET_COMMITTED", "INSERTED_FORGET_COMMITTED"}
\* From the first statement to the insertion of the commit record.
Uncommitted == (DtxState \ Committing) \ {"NONE"}
Forgetting == {"INSERTING_FORGET_COMMITTED", "INSERTED_FORGET_COMMITTED"}
Aborting ==
    {"NOTIFYING_ABORT_NO_PREPARED", "NOTIFYING_ABORT_SOME_PREPARED",
     "NOTIFYING_ABORT_PREPARED", "RETRY_ABORT_PREPARED"}

\* The command a backend waits for in each state.
Broadcast ==
    {<<"NOTIFYING_ONE_PHASE_COMMIT", "COMMIT_ONEPHASE">>,
     <<"PREPARING", "PREPARE">>,
     <<"NOTIFYING_COMMIT_PREPARED", "COMMIT_PREPARED">>,
     <<"RETRY_COMMIT_PREPARED", "RETRY_COMMIT_PREPARED">>,
     <<"NOTIFYING_ABORT_NO_PREPARED", "ABORT_NO_PREPARED">>,
     <<"NOTIFYING_ABORT_SOME_PREPARED", "ABORT_SOME_PREPARED">>,
     <<"NOTIFYING_ABORT_PREPARED", "ABORT_PREPARED">>,
     <<"RETRY_ABORT_PREPARED", "RETRY_ABORT_PREPARED">>}

RollbackCmd == AbortCmd \cup {"ABORT_NO_PREPARED", "ABORT_SOME_PREPARED"}
RetryCmd == {"RETRY_COMMIT_PREPARED", "RETRY_ABORT_PREPARED"}

AllCommitted(g) == \A s \in dtxSegments[g] : local[g][s] = "committed"

-----------------------------------------------------------------------------
\* The recovery of committed transactions is over before sessions start.
RecoveryOrder ==
    /\ dtmStarted => up
    /\ up => recPc # "down"
    /\ dtmStarted \/ recPc \in {"gather", "abort"} => recPc # "commit" /\ shmCommitted = {}
    /\ ~ up \/ recPc = "gather" => recGxid = {}

\* A backend's state against the array of running transactions.
Running ==
    \A g \in Gxid :
        /\ g \in procArray <=> dtxState[g] # "NONE"
        /\ g \in procArray => dtmStarted /\ g \in used /\ told[g] = "none"
        /\ told[g] # "none" => g \in used
        /\ g \notin used => dtxSegments[g] = {}
        /\ wrote[g] \subseteq dtxSegments[g]

\* A backend's state against the log.
StateLogged ==
    \A g \in Gxid :
        /\ dtxState[g] # "NONE" => (HasCommit(g) <=> dtxState[g] \in Committing)
        /\ g \in delayChkpt => dtxState[g] \in {"PREPARED", "INSERTING_COMMITTED", "INSERTED_COMMITTED"}
        /\ g \in includeInCkpt => dtxState[g] \in Committing \ {"INSERTED_FORGET_COMMITTED"}
        /\ dtxState[g] \in Committing \ {"INSERTING_COMMITTED"} /\ g \notin delayChkpt => Durable(g)
        /\ dtxState[g] = "INSERTING_COMMITTED" => g \in delayChkpt
        /\ dtxState[g] \in Forgetting => HasForget(g)
        /\ HasForget(g) => Durable(g)
        /\ HasCommit(g) => g \in used

\* A backend's state against its segments.
StatePrepared ==
    \A g \in Gxid :
        /\ dtxState[g] = "PREPARED" \/ HasCommit(g) =>
              \A s \in dtxSegments[g] : local[g][s] \in {"prepared", "committed"}
        /\ dtxState[g] = "PREPARING" /\ g \notin failed =>
              \A s \in dtxSegments[g] \ pending[g] : local[g][s] = "prepared"
        /\ dtxState[g] \in {"NOTIFYING_ONE_PHASE_COMMIT", "NOTIFYING_COMMIT_PREPARED",
                            "RETRY_COMMIT_PREPARED"} /\ g \notin failed =>
              \A s \in dtxSegments[g] \ pending[g] : local[g][s] = "committed"
        /\ dtxState[g] = "ONE_PHASE_COMMIT" => dtxSegments[g] = {}
        /\ HasForget(g) => AllCommitted(g)
        /\ recPc = "commit" /\ recGxid = {g} /\ ~ recFailed =>
              \A s \in dtxSegments[g] \ recPending : local[g][s] = "committed"
        /\ dtxState[g] = "ACTIVE_DISTRIBUTED" =>
              \A s \in Segment : local[g][s] \notin {"prepared", "committed"}

\* What a segment has done against the decision.
Outcome ==
    \A g \in Gxid :
        /\ \A s \in Segment : local[g][s] = "committed" => Durable(g) \/ g \in onePhase
        /\ \A s \in Segment \ dtxSegments[g] : local[g][s] = "none"
        /\ g \in onePhase =>
              /\ ~ HasCommit(g)
              /\ g \in used
              /\ dtxState[g] \in {"ONE_PHASE_COMMIT", "NOTIFYING_ONE_PHASE_COMMIT",
                                  "NOTIFYING_ABORT_NO_PREPARED", "NONE"}
              /\ \A s, t \in wrote[g] : s = t
        /\ dtxState[g] \in {"ONE_PHASE_COMMIT", "NOTIFYING_ONE_PHASE_COMMIT"} => g \in onePhase

\* A command somebody waits for belongs to what the sender is doing.
LiveCommands ==
    \A m \in msgs : m.live =>
        IF m.cmd \in RecoveryCmd
        THEN /\ recGxid = {m.gxid}
             /\ m.seg \in recPending
             /\ m.cmd = "RECOVERY_COMMIT_PREPARED" <=> recPc = "commit"
        ELSE /\ <<dtxState[m.gxid], m.cmd>> \in Broadcast
             /\ m.seg \in pending[m.gxid]

\* A backend waits only for segments it has sent a command to.
PendingSent ==
    \A g \in Gxid : \A s \in pending[g] :
        \E m \in msgs : m.gxid = g /\ m.seg = s /\ m.live /\ m.cmd \notin RecoveryCmd

\* A command, waited for or left behind, agrees with the decision.
LateCommands ==
    /\ inDoubt \subseteq used
    /\ \A m \in msgs :
        /\ m.gxid \in used
        /\ m.cmd \in CommitCmd => Durable(m.gxid)
        /\ m.cmd = "PREPARE" => dtxState[m.gxid] # "ACTIVE_DISTRIBUTED"
        /\ m.cmd = "COMMIT_ONEPHASE" => m.gxid \in onePhase
        /\ m.cmd \in RollbackCmd => /\ dtxState[m.gxid] \in Aborting \cup {"NONE"}
                                    /\ HasCommit(m.gxid) => AllCommitted(m.gxid)

(***************************************************************************)
(* DtmInv: whatever state a backend is in (MyTmGxactLocal->state), the log *)
(* has just the records that state stands for, the segments are as far as  *)
(* the broadcasts it has seen answered say, and no command a QE still      *)
(* holds, even of a backend that is long gone, contradicts the decision.   *)
(* This is the inductive invariant of the proofs.                          *)
(***************************************************************************)
DtmInv ==
    /\ LogInv
    /\ TypeOK
    /\ RecoveryOrder
    /\ Running
    /\ StateLogged
    /\ StatePrepared
    /\ Outcome
    /\ LiveCommands
    /\ PendingSent
    /\ LateCommands
    /\ AnswerHolds

-----------------------------------------------------------------------------
(* What DtmInv leaves out: the contexts of the QEs.                         *)

\* The segments of a backend that could send PREPARE, or COMMIT_PREPARED and
\* ABORT_PREPARED, are in the context these need, or lost.
GangContext ==
    \A g \in Gxid : \A s \in dtxSegments[g] :
        /\ dtxState[g] = "ACTIVE_DISTRIBUTED" => qe[g][s] \in {"WRITER", "dead"}
        /\ (dtxState[g] = "PREPARING" /\ g \notin failed /\ s \notin pending[g]) =>
              qe[g][s] \in {"PREPARED", "dead"}
        /\ dtxState[g] \in {"PREPARED", "INSERTING_COMMITTED", "INSERTED_COMMITTED"} =>
              qe[g][s] \in {"PREPARED", "dead"} /\ local[g][s] = "prepared"

\* The commands there can be for transaction h, by the state of its backend.
OwnCommand(h, cmd) ==
    /\ cmd \in RecoveryCmd => dtxState[h] = "NONE"
    /\ dtxState[h] \in {"INSERTING_COMMITTED", "INSERTED_COMMITTED"} => cmd \notin CommitCmd
    /\ dtxState[h] = "NOTIFYING_COMMIT_PREPARED" => cmd \notin CommitCmd \ {"COMMIT_PREPARED"}
    /\ dtxState[h] = "NOTIFYING_ABORT_PREPARED" => cmd \notin RollbackCmd \ {"ABORT_PREPARED"}

\* A first COMMIT_PREPARED or ABORT_PREPARED nobody waits for is that of a lost QE.
LostCommand(m) ==
    (/\ ~ m.live
     /\ m.cmd \in {"COMMIT_PREPARED", "ABORT_PREPARED"}
     /\ dtxState[m.gxid] \in {"NOTIFYING_COMMIT_PREPARED", "NOTIFYING_ABORT_PREPARED"})
        => qe[m.gxid][m.seg] = "dead"

\* While it waits for its first COMMIT_PREPARED or ABORT_PREPARED, nobody else ends
\* the prepared transaction.
OwnCommands == \A m \in msgs : OwnCommand(m.gxid, m.cmd) /\ LostCommand(m)

ContextInv == GangContext /\ OwnCommands /\ ContextAccepted
=============================================================================
