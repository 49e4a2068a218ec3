-------------------------------- MODULE Fts --------------------------------
(***************************************************************************)
(* The fault tolerance service and one primary-mirror pair.  FTS probes    *)
(* the segment that gp_segment_configuration calls primary, records what   *)
(* it reports, has it turn synchronous replication off when the mirror is  *)
(* gone, and promotes an in-sync mirror when the primary does not answer.  *)
(* The segment commits transactions, with or without waiting for its       *)
(* mirror.  Connections, segments and FTS itself may fail at any step; a   *)
(* handler whose request FTS has given up may still run later.             *)
(***************************************************************************)
EXTENDS Integers, Sequences, FiniteSets, SequencesExt

CONSTANTS
    Node,        \* the two segments of the pair
    First,       \* the one that starts as primary
    MaxRetry,    \* gp_fts_probe_retries
    MaxCommit,   \* bound: commits
    MaxFault     \* bound: crashes, lost connections and timeouts

ASSUME FtsAssumption ==
    /\ IsFiniteSet(Node) /\ Cardinality(Node) = 2
    /\ First \in Node
    /\ {MaxRetry, MaxCommit, MaxFault} \subseteq Nat

Peer(n) == CHOOSE m \in Node : m # n

Commit == 1 .. MaxCommit

Config   == [primary : Node, mirrorUp : BOOLEAN, inSync : BOOLEAN]
Message  == {"PROBE", "SYNCREP_OFF", "PROMOTE"}
Response == [mirrorUp : BOOLEAN, inSync : BOOLEAN, syncRep : BOOLEAN,
             roleMirror : BOOLEAN, requestRetry : BOOLEAN]
Nothing  == [mirrorUp |-> FALSE, inSync |-> FALSE, syncRep |-> FALSE,
             roleMirror |-> FALSE, requestRetry |-> FALSE]

VARIABLES
    cfg,        \* gp_segment_configuration of the pair
    state, msg, \* FtsMessageState: what is asked of the primary, how far
    retry,      \* retry_count
    restart,    \* restart_state: resetting, or recovery that makes progress
    arrived,    \* an answer has come in on the connection
    result,     \* that answer
    handlers,   \* FTS handler processes that have not answered yet
    proc,       \* "up", "down", or "reset": the postmaster restarts its children
    acting,     \* what each segment really is
    replaying,  \* a mirror's StartupXLOG() has come to archive recovery
    promoting,  \* the promote signal file exists
    conf,       \* synchronous_standby_names in gp_replication.conf
    sync,       \* WalSndCtl->sync_standbys_defined
    walsnd,     \* the WAL sender of each acting primary
    grace,      \* within gp_fts_mark_mirror_down_grace_period
    gang,       \* QEs run on the segment
    log,        \* commit records each segment has flushed
    waits,      \* SyncRepQueue
    acked,      \* history: commits that were acknowledged
    late,       \* history: the file was emptied late, so that FTS does not know of it
    exposed,    \* history: those that one failure may still take away
    nextCommit, faults   \* counters of the bounds

ftsVars == <<state, msg, retry, restart, arrived, result>>
segVars == <<proc, acting, replaying, promoting, conf, sync, grace, gang, waits>>
walVars == <<walsnd, log>>
histVars == <<acked, exposed, late>>
vars == <<cfg, ftsVars, handlers, segVars, walVars, histVars, nextCommit, faults>>

Handler == [node : Node, msg : Message, live : BOOLEAN]

TypeOK ==
    /\ cfg \in Config
    /\ cfg.inSync => cfg.mirrorUp
    /\ state \in {"IDLE", "SEGMENT", "SENT", "RETRY_WAIT", "SUCCESS", "FAILED"}
    /\ msg \in Message
    /\ retry \in 0 .. MaxRetry
    /\ restart \in BOOLEAN
    /\ arrived \in BOOLEAN
    /\ result \in Response
    /\ handlers \subseteq Handler
    /\ proc \in [Node -> {"up", "down", "reset"}]
    /\ acting \in [Node -> {"primary", "mirror"}]
    /\ {replaying, promoting, conf, sync, grace, gang, late} \subseteq [Node -> BOOLEAN]
    /\ walsnd \in [Node -> {"none", "catchup", "streaming"}]
    /\ log \in [Node -> Seq(Commit)]
    /\ waits \in [Node -> SUBSET Commit]
    /\ acked \subseteq Commit
    /\ exposed \subseteq acked
    /\ nextCommit \in 1 .. MaxCommit + 1
    /\ faults \in 0 .. MaxFault

Init ==
    /\ cfg = [primary |-> First, mirrorUp |-> TRUE, inSync |-> TRUE]
    /\ state = "IDLE"
    /\ msg = "PROBE"
    /\ retry = 0
    /\ restart = FALSE
    /\ arrived = FALSE
    /\ result = Nothing
    /\ handlers = {}
    /\ proc = [n \in Node |-> "up"]
    /\ acting = [n \in Node |-> IF n = First THEN "primary" ELSE "mirror"]
    /\ replaying = [n \in Node |-> n # First]
    /\ promoting = [n \in Node |-> FALSE]
    /\ conf = [n \in Node |-> TRUE]
    /\ sync = [n \in Node |-> TRUE]
    /\ walsnd = [n \in Node |-> IF n = First THEN "streaming" ELSE "none"]
    /\ grace = [n \in Node |-> FALSE]
    /\ gang = [n \in Node |-> FALSE]
    /\ log = [n \in Node |-> <<>>]
    /\ waits = [n \in Node |-> {}]
    /\ acked = {}
    /\ exposed = {}
    /\ late = [n \in Node |-> FALSE]
    /\ nextCommit = 1
    /\ faults = 0

Fault == faults < MaxFault /\ faults' = faults + 1
-----------------------------------------------------------------------------
(* FTS: one cycle of FtsWalRepMessageSegments()                            *)

\* FtsWalRepInitProbeContext()
StartCycle ==
    /\ state = "IDLE"
    /\ state' = "SEGMENT"
    /\ UNCHANGED <<cfg, msg, retry, restart, arrived, result, handlers, segVars, walVars, histVars, nextCommit, faults>>

\* ftsConnect(): a segment that is restarting says so when it refuses, and
\* whether its recovery makes progress.
ConnectFails ==
    /\ state = "SEGMENT"
    /\ proc[cfg.primary] # "up"
    /\ state' = "FAILED"
    /\ restart' \in (IF proc[cfg.primary] = "reset" THEN BOOLEAN ELSE {FALSE})
    /\ UNCHANGED <<cfg, msg, retry, arrived, result, handlers, segVars, walVars, histVars, nextCommit, faults>>

\* ftsConnect() and ftsSend(): the segment starts a handler.
ftsSend ==
    /\ state = "SEGMENT"
    /\ proc[cfg.primary] = "up"
    /\ state' = "SENT"
    /\ restart' = FALSE
    /\ handlers' = handlers \cup {[node |-> cfg.primary, msg |-> msg, live |-> TRUE]}
    /\ UNCHANGED <<cfg, msg, retry, arrived, result, segVars, walVars, histVars, nextCommit, faults>>

\* ftsReceive()
ftsReceive ==
    /\ state = "SENT"
    /\ arrived
    /\ state' = "SUCCESS"
    /\ arrived' = FALSE
    /\ UNCHANGED <<cfg, msg, retry, restart, result, handlers, segVars, walVars, histVars, nextCommit, faults>>

\* ftsPoll(): the segment that was asked is gone.
ConnectionLost ==
    /\ state = "SENT"
    /\ ~ arrived
    /\ \A h \in handlers : ~ h.live
    /\ state' = "FAILED"
    /\ UNCHANGED <<cfg, msg, retry, restart, arrived, result, handlers, segVars, walVars, histVars, nextCommit, faults>>

\* ftsCheckTimeout(): the request is given up, its handler is not.
ftsCheckTimeout ==
    /\ state \in {"SEGMENT", "SENT"}
    /\ Fault
    /\ state' = "FAILED"
    /\ restart' = FALSE
    /\ arrived' = FALSE
    /\ result' = Nothing
    /\ handlers' = {[h EXCEPT !.live = FALSE] : h \in handlers}
    /\ UNCHANGED <<cfg, msg, retry, segVars, walVars, histVars, nextCommit>>

\* processRetry(): failures, and answers of a primary whose mirror may yet
\* connect, are asked again.
RetryDue ==
    \/ state = "FAILED"
    \/ state = "SUCCESS" /\ msg = "PROBE" /\ result.requestRetry /\ cfg.mirrorUp

retryForFtsFailed ==
    /\ RetryDue
    /\ retry < MaxRetry
    /\ retry' = retry + 1
    /\ state' = "RETRY_WAIT"
    /\ result' = Nothing
    /\ UNCHANGED <<cfg, msg, restart, arrived, handlers, segVars, walVars, histVars, nextCommit, faults>>

RetryWaited ==
    /\ state = "RETRY_WAIT"
    /\ state' = "SEGMENT"
    /\ UNCHANGED <<cfg, msg, retry, restart, arrived, result, handlers, segVars, walVars, histVars, nextCommit, faults>>

\* processResponse(): when nothing is left to retry.
Ready(s, m) ==
    /\ state = s
    /\ msg = m
    /\ RetryDue => retry = MaxRetry
    /\ retry' = 0
    /\ result' = Nothing
    /\ restart' = FALSE
    /\ UNCHANGED <<arrived, handlers, segVars, walVars, acked, nextCommit, faults>>

\* FTS_RESPONSE_PROCESSED ends the cycle; the next one has a new context.
Processed == state' = "IDLE" /\ msg' = "PROBE"

Ask(m) == state' = "SEGMENT" /\ msg' = m

\* updateConfiguration(); commits that a mirror recorded as in sync has not
\* flushed yet are exposed, and a file that is still empty is so late.
updateConfiguration(new) ==
    /\ cfg' = new
    /\ \/ /\ new.inSync /\ ~ cfg.inSync
          /\ exposed' = exposed \cup (acked \ Range(log[Peer(new.primary)]))
          /\ late' = [late EXCEPT ![new.primary] = ~ conf[new.primary]]
       \/ /\ ~ (new.inSync /\ ~ cfg.inSync)
          /\ UNCHANGED <<exposed, late>>

\* Fault: the primary is not told that its mirror was marked down.
MarkedDownOnly ==
    /\ Ready("SUCCESS", "PROBE")
    /\ result.syncRep
    /\ ~ result.mirrorUp
    /\ updateConfiguration([cfg EXCEPT !.mirrorUp = FALSE, !.inSync = FALSE])
    /\ Processed

\* Fault: synchronous replication is turned off first, the mirror is marked
\* down by a later probe.
OffBeforeMarkedDown ==
    /\ Ready("SUCCESS", "PROBE")
    /\ result.syncRep
    /\ ~ result.mirrorUp
    /\ \/ ~ result.requestRetry /\ Ask("SYNCREP_OFF")
       \/ result.requestRetry /\ Processed
    /\ UNCHANGED <<cfg, exposed, late>>

\* The mirror of a primary that waits for it is gone: mark it down, then have
\* synchronous replication turned off.
MirrorGone ==
    /\ Ready("SUCCESS", "PROBE")
    /\ result.syncRep
    /\ ~ result.mirrorUp
    /\ \/ /\ ~ result.requestRetry
          /\ updateConfiguration([cfg EXCEPT !.mirrorUp = FALSE, !.inSync = FALSE])
          /\ Ask("SYNCREP_OFF")
       \/ /\ result.requestRetry
          /\ Processed
          /\ UNCHANGED <<cfg, exposed, late>>

\* Fault: the answer of an unpromoted mirror is taken for that of a primary.
RecordRoleMirror ==
    /\ Ready("SUCCESS", "PROBE")
    /\ result.roleMirror
    /\ Processed
    /\ UNCHANGED <<cfg, exposed, late>>

\* An earlier promote request did not make it.
ResendPromote ==
    /\ Ready("SUCCESS", "PROBE")
    /\ result.roleMirror
    /\ Ask("PROMOTE")
    /\ UNCHANGED <<cfg, exposed, late>>

RecordStatus ==
    /\ Ready("SUCCESS", "PROBE")
    /\ ~ (result.syncRep /\ ~ result.mirrorUp)
    /\ ~ result.roleMirror
    /\ updateConfiguration([cfg EXCEPT !.mirrorUp = result.mirrorUp, !.inSync = result.inSync])
    /\ Processed

\* Fault: the old primary is not marked down.
FailOverKeepsUp ==
    /\ Ready("FAILED", "PROBE")
    /\ ~ restart
    /\ cfg.inSync
    /\ updateConfiguration([cfg EXCEPT !.primary = Peer(cfg.primary)])
    /\ Ask("PROMOTE")

\* The primary is down: flip the roles of an in-sync pair, then promote.
FailOver ==
    /\ Ready("FAILED", "PROBE")
    /\ ~ restart
    /\ cfg.inSync
    /\ updateConfiguration([primary |-> Peer(cfg.primary), mirrorUp |-> FALSE, inSync |-> FALSE])
    /\ Ask("PROMOTE")

\* The primary restarts by itself, or there is a double fault.
LeavePrimary ==
    /\ Ready("FAILED", "PROBE")
    /\ restart \/ ~ cfg.inSync
    /\ Processed
    /\ UNCHANGED <<cfg, exposed, late>>

\* The outcome of SYNCREP_OFF and PROMOTE is only logged.
LogOutcome ==
    /\ \E s \in {"SUCCESS", "FAILED"}, m \in {"SYNCREP_OFF", "PROMOTE"} : Ready(s, m)
    /\ Processed
    /\ UNCHANGED <<cfg, exposed, late>>

\* The FTS process, or the coordinator, dies and starts anew.
FtsRestarts ==
    /\ state # "IDLE"
    /\ Fault
    /\ Processed
    /\ retry' = 0
    /\ restart' = FALSE
    /\ arrived' = FALSE
    /\ result' = Nothing
    /\ handlers' = {[h EXCEPT !.live = FALSE] : h \in handlers}
    /\ UNCHANGED <<cfg, segVars, walVars, histVars, nextCommit>>
-----------------------------------------------------------------------------
(* The FTS handlers of a segment                                           *)

Answer(h, response) ==
    /\ handlers' = handlers \ {h}
    /\ arrived' = (arrived \/ h.live)
    /\ result' = IF h.live THEN response ELSE result
    /\ UNCHANGED <<cfg, state, msg, retry, restart, proc, acting, replaying, sync, gang, waits,
                   walVars, acked, exposed, nextCommit, faults>>

\* SetSyncStandbysDefined() looks at shared memory and writes the file.
SetSyncStandbysDefined(n, ready) ==
    LET on == ready /\ ~ sync[n] IN
    /\ conf' = [conf EXCEPT ![n] = @ \/ on]
    /\ late' = [late EXCEPT ![n] = @ /\ ~ on]

\* UnsetSyncStandbysDefined() does so too, late if FTS has given the request up.
UnsetSyncStandbysDefined(h) ==
    LET n == h.node IN
    /\ conf' = [conf EXCEPT ![n] = @ /\ ~ sync[n]]
    /\ late' = [late EXCEPT ![n] = IF sync[n] /\ conf[n] THEN ~ h.live ELSE @]

\* Fault: synchronous replication is only turned on while the mirror catches up.
ProbeSetsInCatchup(h) ==
    LET n  == h.node
        up == walsnd[n] # "none"
    IN
    /\ h.msg = "PROBE"
    /\ acting[n] = "primary"
    /\ \E ready \in (IF walsnd[n] = "catchup" THEN BOOLEAN ELSE {FALSE}) :
          /\ SetSyncStandbysDefined(n, ready)
          /\ Answer(h, [mirrorUp |-> up, inSync |-> walsnd[n] = "streaming",
                        syncRep |-> sync[n] \/ ready, roleMirror |-> FALSE,
                        requestRetry |-> ~ up /\ grace[n]])
    /\ UNCHANGED <<promoting, grace>>

\* HandleFtsWalRepProbe() and GetMirrorStatus(): a WAL sender that catches up
\* may or may not be close enough for synchronous replication.
HandleProbe(h) ==
    LET n  == h.node
        up == walsnd[n] # "none"
        caughtUp == CASE walsnd[n] = "streaming" -> {TRUE}
                      [] walsnd[n] = "catchup" -> BOOLEAN
                      [] OTHER -> {FALSE}
    IN
    /\ h.msg = "PROBE"
    /\ acting[n] = "primary"
    /\ \E ready \in caughtUp :
          /\ SetSyncStandbysDefined(n, ready)
          /\ Answer(h, [mirrorUp |-> up, inSync |-> walsnd[n] = "streaming",
                        syncRep |-> sync[n] \/ ready, roleMirror |-> FALSE,
                        requestRetry |-> ~ up /\ grace[n]])
    /\ UNCHANGED <<promoting, grace>>

HandleProbeOfMirror(h) ==
    /\ h.msg = "PROBE"
    /\ acting[h.node] = "mirror"
    /\ Answer(h, [Nothing EXCEPT !.roleMirror = TRUE])
    /\ UNCHANGED <<promoting, conf, grace, late>>

\* HandleFtsWalRepSyncRepOff(); the time of the disconnection is forgotten.
HandleSyncRepOff(h) ==
    /\ h.msg = "SYNCREP_OFF"
    /\ UnsetSyncStandbysDefined(h)
    /\ \E still \in {FALSE, grace[h.node]} : grace' = [grace EXCEPT ![h.node] = still]
    /\ Answer(h, Nothing)
    /\ UNCHANGED promoting

\* HandleFtsWalRepPromote(): ignored by a segment that is not in archive
\* recovery, or not yet.
HandlePromote(h) ==
    LET n == h.node IN
    /\ h.msg = "PROMOTE"
    /\ \/ /\ replaying[n]
          /\ UnsetSyncStandbysDefined(h)
          /\ promoting' = [promoting EXCEPT ![n] = TRUE]
       \/ /\ ~ replaying[n]
          /\ UNCHANGED <<conf, promoting, late>>
    /\ Answer(h, Nothing)
    /\ UNCHANGED grace

Handle(h) ==
    \/ HandleProbe(h)
    \/ HandleProbeOfMirror(h)
    \/ HandleSyncRepOff(h)
    \/ HandlePromote(h)
-----------------------------------------------------------------------------
(* A segment                                                               *)

\* Commits acknowledged without the mirror are exposed when the configuration
\* lets the mirror take over, or has let it, and the file is on but not reloaded
\* or was emptied late.
AckAlone(n, commits) ==
    /\ acked' = acked \cup commits
    /\ exposed' = IF (cfg.inSync \/ cfg.primary # n) /\ (conf[n] \/ late[n])
                  THEN exposed \cup commits ELSE exposed
    /\ UNCHANGED late

\* A QE commits: SyncRepWaitForLSN() waits if sync_standbys_defined is set.
\* The dispatcher makes gangs on the primary of the configuration only.
CommitRecord(n) ==
    /\ nextCommit \in Commit
    /\ proc[n] = "up"
    /\ acting[n] = "primary"
    /\ gang[n] \/ cfg.primary = n
    /\ gang' = [gang EXCEPT ![n] = TRUE]
    /\ log' = [log EXCEPT ![n] = Append(@, nextCommit)]
    /\ nextCommit' = nextCommit + 1
    /\ \/ /\ sync[n]
          /\ waits' = [waits EXCEPT ![n] = @ \cup {nextCommit}]
          /\ UNCHANGED histVars
       \/ /\ ~ sync[n]
          /\ AckAlone(n, {nextCommit})
          /\ UNCHANGED waits
    /\ UNCHANGED <<cfg, ftsVars, handlers, proc, acting, replaying, promoting, conf, sync, grace, walsnd, faults>>

\* SyncRepReleaseWaiters()
ReleaseWaiters(n) ==
    LET flushed == waits[n] \cap Range(log[Peer(n)]) IN
    /\ walsnd[n] = "streaming"
    /\ flushed # {}
    /\ waits' = [waits EXCEPT ![n] = @ \ flushed]
    /\ acked' = acked \cup flushed
    /\ UNCHANGED <<cfg, ftsVars, handlers, proc, acting, replaying, promoting, conf, sync, grace, gang,
                   walVars, exposed, late, nextCommit, faults>>

\* SyncRepUpdateSyncStandbysDefined(), when the checkpointer has read the file:
\* nobody waits any longer once it is empty.
UpdateSyncStandbysDefined(n) ==
    /\ proc[n] = "up"
    /\ sync[n] # conf[n]
    /\ sync' = [sync EXCEPT ![n] = conf[n]]
    /\ waits' = [waits EXCEPT ![n] = {}]
    /\ AckAlone(n, waits[n])
    /\ UNCHANGED <<cfg, ftsVars, handlers, proc, acting, replaying, promoting, conf, grace, gang, walVars,
                   nextCommit, faults>>

\* The mirror connects; the WAL sender has sent all there is; the mirror
\* flushes the next record; the connection breaks.
WalSndConnects(n) ==
    /\ walsnd[n] = "none"
    /\ proc[n] = "up" /\ acting[n] = "primary"
    /\ proc[Peer(n)] = "up" /\ replaying[Peer(n)]
    /\ IsPrefix(log[Peer(n)], log[n])
    /\ walsnd' = [walsnd EXCEPT ![n] = "catchup"]
    /\ UNCHANGED <<cfg, ftsVars, handlers, segVars, log, histVars, nextCommit, faults>>

WalSndCaughtUp(n) ==
    /\ walsnd[n] = "catchup"
    /\ walsnd' = [walsnd EXCEPT ![n] = "streaming"]
    /\ UNCHANGED <<cfg, ftsVars, handlers, segVars, log, histVars, nextCommit, faults>>

MirrorFlushes(n) ==
    LET m == Peer(n) IN
    /\ walsnd[n] # "none"
    /\ Len(log[m]) < Len(log[n])
    /\ log' = [log EXCEPT ![m] = Append(@, log[n][Len(@) + 1])]
    /\ UNCHANGED <<cfg, ftsVars, handlers, segVars, walsnd, histVars, nextCommit, faults>>

WalSndBreaks(n) ==
    /\ walsnd[n] # "none"
    /\ Fault
    /\ walsnd' = [walsnd EXCEPT ![n] = "none"]
    /\ grace' = [grace EXCEPT ![n] = TRUE]
    /\ UNCHANGED <<cfg, ftsVars, handlers, proc, acting, replaying, promoting, conf, sync, gang, waits, log,
                   histVars, nextCommit>>

GraceEnds(n) ==
    /\ grace[n]
    /\ grace' = [grace EXCEPT ![n] = FALSE]
    /\ UNCHANGED <<cfg, ftsVars, handlers, proc, acting, replaying, promoting, conf, sync, gang, waits, walVars,
                   histVars, nextCommit, faults>>

\* StartupXLOG() of a mirror sets the database state and the redo pointer.
StartReplay(n) ==
    /\ proc[n] = "up"
    /\ acting[n] = "mirror"
    /\ ~ replaying[n]
    /\ replaying' = [replaying EXCEPT ![n] = TRUE]
    /\ UNCHANGED <<cfg, ftsVars, handlers, proc, acting, promoting, conf, sync, grace, gang, waits,
                   walVars, histVars, nextCommit, faults>>

\* The startup process finds the promote signal and ends recovery.
Promoted(n) ==
    /\ promoting[n]
    /\ promoting' = [promoting EXCEPT ![n] = FALSE]
    /\ replaying' = [replaying EXCEPT ![n] = FALSE]
    /\ acting' = [acting EXCEPT ![n] = "primary"]
    /\ walsnd' = [walsnd EXCEPT ![Peer(n)] = "none"]
    /\ grace' = [m \in Node |-> grace[m] \/ m = n \/ walsnd[m] # "none"]
    /\ UNCHANGED <<cfg, ftsVars, handlers, proc, conf, sync, gang, waits, log, histVars, nextCommit, faults>>

\* Shared memory, connections and processes are lost, the files are not.
Stopped(n, to) ==
    /\ proc' = [proc EXCEPT ![n] = to]
    /\ handlers' = {h \in handlers : h.node # n}
    /\ replaying' = [replaying EXCEPT ![n] = FALSE]
    /\ promoting' = [promoting EXCEPT ![n] = FALSE]
    /\ sync' = [sync EXCEPT ![n] = FALSE]
    /\ gang' = [gang EXCEPT ![n] = FALSE]
    /\ waits' = [waits EXCEPT ![n] = {}]
    /\ walsnd' = [m \in Node |-> "none"]

Crash(n) ==
    /\ proc[n] = "up"
    /\ Fault
    /\ \E to \in {"down", "reset"} : Stopped(n, to)
    /\ grace' = [m \in Node |-> grace[m] \/ walsnd[m] # "none"]
    /\ UNCHANGED <<cfg, ftsVars, acting, conf, log, histVars, nextCommit>>

Restart(n) ==
    /\ proc[n] # "up"
    /\ proc' = [proc EXCEPT ![n] = "up"]
    /\ grace' = [grace EXCEPT ![n] = TRUE]
    /\ UNCHANGED <<cfg, ftsVars, handlers, acting, replaying, promoting, conf, sync, gang, waits, walVars,
                   histVars, nextCommit, faults>>

\* As long as the prefixes of s that t has too are many.
CommonPrefix(s, t) ==
    SubSeq(s, 1, Cardinality({k \in 1 .. Len(s) : IsPrefix(SubSeq(s, 1, k), t)}))

\* gprecoverseg: the failed primary is stopped, rewound with pg_rewind, and
\* started as the mirror of the new one.
RecoverSegment(n) ==
    LET p == cfg.primary IN
    /\ n # p
    /\ ~ cfg.mirrorUp
    /\ acting[n] = "primary"
    /\ proc[p] = "up" /\ acting[p] = "primary"
    /\ Stopped(n, "up")
    /\ acting' = [acting EXCEPT ![n] = "mirror"]
    /\ log' = [log EXCEPT ![n] = CommonPrefix(@, log[p])]
    /\ conf' = [conf EXCEPT ![n] = conf[p]]
    /\ late' = [late EXCEPT ![n] = ~ conf[p]]
    /\ UNCHANGED <<cfg, ftsVars, grace, acked, exposed, nextCommit, faults>>
-----------------------------------------------------------------------------
FtsStep ==
    \/ StartCycle
    \/ ConnectFails
    \/ ftsSend
    \/ ftsReceive
    \/ ConnectionLost
    \/ retryForFtsFailed
    \/ RetryWaited
    \/ MirrorGone
    \/ ResendPromote
    \/ RecordStatus
    \/ FailOver
    \/ LeavePrimary
    \/ LogOutcome

Replicate(n) == ReleaseWaiters(n) \/ WalSndCaughtUp(n) \/ MirrorFlushes(n)

Next ==
    \/ FtsStep
    \/ ftsCheckTimeout
    \/ FtsRestarts
    \/ \E h \in handlers : Handle(h)
    \/ \E n \in Node :
          \/ Replicate(n)
          \/ UpdateSyncStandbysDefined(n)
          \/ GraceEnds(n)
          \/ StartReplay(n)
          \/ Promoted(n)
          \/ CommitRecord(n)
          \/ WalSndConnects(n)
          \/ WalSndBreaks(n)
          \/ Crash(n)
          \/ Restart(n)
          \/ RecoverSegment(n)

Spec == Init /\ [][Next]_vars

\* FTS goes on with its cycles, a handler in use answers, and the processes of
\* a segment that is up do their work.  Nobody has to start or recover a
\* segment, and a mirror need not connect.
FairSpec ==
    /\ Spec
    /\ WF_vars(FtsStep)
    /\ WF_vars(\E h \in handlers : h.live /\ Handle(h))
    /\ \A n \in Node : /\ WF_vars(Replicate(n))
                       /\ WF_vars(UpdateSyncStandbysDefined(n))
                       /\ WF_vars(GraceEnds(n) \/ StartReplay(n) \/ Promoted(n))
-----------------------------------------------------------------------------
(* Whatever fails, and however often the roles change, the segment that the *)
(* configuration calls primary has every commit that was acknowledged:      *)
(* FTS promotes no mirror that may miss one.  Excepted are the exposed      *)
(* commits: not flushed yet by a mirror that is recorded as in sync, or     *)
(* acknowledged alone between the write and the reload of the file or after *)
(* a request that FTS had given up.                                         *)
NoLostCommit == acked \ exposed \subseteq Range(log[cfg.primary])

(* The assertions in processResponse(): when the primary of the             *)
(* configuration answers as a mirror, its roles were flipped before: the    *)
(* other segment is marked down and the pair is not in sync.                *)
ResendSound ==
    state = "SUCCESS" /\ result.roleMirror
        => ~ cfg.mirrorUp /\ ~ cfg.inSync /\ ~ result.syncRep

(* A promotion that was begun is carried through though the request, its    *)
(* answer or FTS itself is lost: the primary of the configuration does not  *)
(* stay a mirror.                                                           *)
PromotionEnds ==
    LET p == cfg.primary IN
    proc[p] = "up" /\ acting[p] = "mirror" ~> proc[p] # "up" \/ acting[p] = "primary"

(* Commits do not wait for ever for a mirror that is gone: FTS marks it     *)
(* down and has the primary release them.                                   *)
CommitsUnblocked == waits[cfg.primary] # {} ~> waits[cfg.primary] = {}

(* A pair recorded as in sync does not stay without synchronous replication *)
(* (after a restart, a late reload of the file or a late SYNCREP_OFF).      *)
SyncRepRestored ==
    LET alone == cfg.inSync /\ proc[cfg.primary] = "up" /\ ~ sync[cfg.primary]
    IN  alone ~> ~ alone
=============================================================================
