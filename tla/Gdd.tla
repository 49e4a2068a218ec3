-------------------------------- MODULE Gdd --------------------------------
(***************************************************************************)
(* The global deadlock detector among the transactions it watches.  Every  *)
(* segment has one row, updated under a tuple lock and the updater's       *)
(* transaction lock; the coordinator has one relation lock with a queue.   *)
(* The detector reads the segments one after the other while transactions  *)
(* go on, drops the transactions that ended since, reduces the graph and   *)
(* signals the backends of its victims.                                    *)
(***************************************************************************)
EXTENDS GddGraph, Sequences, SequencesExt

CONSTANTS
    Backend,        \* QD backends: each runs distributed transactions
    NoBackend,
    Coord,          \* the coordinator, a member of Seg
    RelModes,       \* modes in which the relation is locked
    Upgrades,       \* a transaction may lock the relation twice
    Savepoints,     \* a transaction may roll back to a savepoint
    UserCancels,    \* statements are cancelled by others too
    SlowAbort       \* an abort may outlast gp_global_deadlock_detector_period

ASSUME GddAssumption ==
    /\ Coord \in Seg
    /\ Vid # {}
    /\ NoBackend \notin Backend
    /\ RelModes \subseteq {"share", "excl"}
    /\ {Upgrades, Savepoints, UserCancels, SlowAbort} \subseteq BOOLEAN

QE == Seg \ {Coord}

VARIABLES
    nextGxid,   \* ShmemVariableCache->nextGxid
    gxid,       \* TMGXACT.gxid of each backend, 0 for none
    status,     \* of the transaction each backend runs
    endedOn,    \* segments on which that transaction has ended
    writer,     \* who has an uncommitted update of each segment's row
    tuplock,    \* who holds the tuple lock of each segment's row
    want,       \* what each backend's process on each segment waits for
    rel,        \* the mode in which each backend holds the relation
    relQueue,   \* LOCK.waitProcs of the relation: <<backend, mode>>
    pc,         \* progress of the detector's round
    rows,       \* wait relations collected so far
    pending,    \* segments that have not answered yet
    graph,      \* the edges left in the detector's graph
    victims,    \* transactions to cancel
    pid         \* what GetPidByGxid() returned

xactVars == <<nextGxid, gxid, status, endedOn>>
lockVars == <<writer, tuplock, want, rel, relQueue>>
gddVars  == <<pc, rows, pending, graph, victims, pid>>
vars     == <<xactVars, lockVars, gddVars>>

TypeOK ==
    /\ nextGxid \in Nat
    /\ gxid \in [Backend -> Vid \cup {0}]
    /\ status \in [Backend -> {"idle", "active", "ending", "ended"}]
    /\ endedOn \in [Backend -> SUBSET QE]
    /\ writer \in [QE -> Backend \cup {NoBackend}]
    /\ tuplock \in [QE -> Backend \cup {NoBackend}]
    /\ want \in [Backend -> [QE -> {"none", "tuple", "xid"}]]
    /\ \A b \in Backend, q \in QE :
          /\ want[b][q] # "none" => writer[q] # b
          /\ want[b][q] = "xid" <=> tuplock[q] = b
    /\ rel \in [Backend -> {"none", "share", "excl"}]
    /\ \A b, c \in Backend : rel[b] = "excl" /\ rel[c] # "none" => b = c
    /\ relQueue \in Seq(Backend \X {"share", "excl"})
    /\ pc \in {"sleep", "collect", "build", "break", "cancel", "signal"}
    /\ pending \subseteq Seg
    /\ graph \subseteq Edge
    /\ victims \subseteq Int
    /\ pid \in Backend \cup {NoBackend}
-----------------------------------------------------------------------------
Conflicts(m1, m2) == m1 # "none" /\ m2 # "none" /\ "excl" \in {m1, m2}

Waiter(i) == relQueue[i][1]
Mode(i)   == relQueue[i][2]

Queued(b)  == \E i \in DOMAIN relQueue : Waiter(i) = b
Waiting(b) == Queued(b) \/ \E q \in QE : want[b][q] # "none"

(* Nobody else holds the relation in a conflicting mode, and nobody ahead   *)
(* in the queue asks for one.                                               *)
Grantable(b, m, ahead) ==
    /\ \A c \in Backend \ {b} : ~ Conflicts(rel[c], m)
    /\ \A i \in ahead : ~ Conflicts(Mode(i), m)

Begin(b) ==
    /\ status[b] = "idle"
    /\ nextGxid \in Vid
    /\ gxid' = [gxid EXCEPT ![b] = nextGxid]
    /\ nextGxid' = nextGxid + 1
    /\ status' = [status EXCEPT ![b] = "active"]
    /\ UNCHANGED <<endedOn, lockVars, gddVars>>

(* LockAcquireExtended() on the coordinator: a new request also waits       *)
(* behind conflicting requests.  A holder that asks for more goes before    *)
(* the waiters its lock blocks; when one of those holds the lock too the    *)
(* two block each other, which is refused at once.                          *)
LockRelation(b, m) ==
    /\ status[b] = "active"
    /\ ~ Waiting(b)
    /\ rel[b] = "none" \/ (Upgrades /\ rel[b] = "share" /\ m = "excl")
    /\ LET ahead    == IF rel[b] = "none" THEN DOMAIN relQueue ELSE {}
           upgrades == \E i \in DOMAIN relQueue : rel[Waiter(i)] # "none"
       IN \/ /\ Grantable(b, m, ahead)
             /\ rel' = [rel EXCEPT ![b] = m]
             /\ UNCHANGED <<relQueue, status>>
          \/ /\ ~ Grantable(b, m, ahead)
             /\ ~ (rel[b] # "none" /\ upgrades)
             /\ relQueue' = IF rel[b] = "none" THEN Append(relQueue, <<b, m>>)
                                               ELSE <<<<b, m>>>> \o relQueue
             /\ UNCHANGED <<rel, status>>
          \/ /\ ~ Grantable(b, m, ahead)
             /\ rel[b] # "none" /\ upgrades
             /\ status' = [status EXCEPT ![b] = "ending"]
             /\ UNCHANGED <<rel, relQueue>>
    /\ UNCHANGED <<nextGxid, gxid, endedOn, writer, tuplock, want, gddVars>>

(* ProcLockWakeup() grants the relation to a waiter. *)
GrantRelation(i) ==
    /\ i \in DOMAIN relQueue
    /\ Grantable(Waiter(i), Mode(i), 1 .. i - 1)
    /\ rel' = [rel EXCEPT ![Waiter(i)] = Mode(i)]
    /\ relQueue' = RemoveAt(relQueue, i)
    /\ UNCHANGED <<xactVars, writer, tuplock, want, gddVars>>

(* heap_update() on a segment: a row with an uncommitted update is waited   *)
(* for under the tuple lock, which later updaters wait for.                 *)
Update(b, q) ==
    /\ status[b] = "active"
    /\ ~ Queued(b)
    /\ want[b][q] = "none"
    /\ writer[q] # b
    /\ \/ /\ writer[q] = NoBackend
          /\ writer' = [writer EXCEPT ![q] = b]
          /\ UNCHANGED <<tuplock, want>>
       \/ /\ writer[q] # NoBackend
          /\ tuplock[q] = NoBackend
          /\ tuplock' = [tuplock EXCEPT ![q] = b]
          /\ want' = [want EXCEPT ![b][q] = "xid"]
          /\ UNCHANGED writer
       \/ /\ writer[q] # NoBackend
          /\ tuplock[q] # NoBackend
          /\ want' = [want EXCEPT ![b][q] = "tuple"]
          /\ UNCHANGED <<writer, tuplock>>
    /\ UNCHANGED <<xactVars, rel, relQueue, gddVars>>

GetTupleLock(b, q) ==
    /\ want[b][q] = "tuple"
    /\ tuplock[q] = NoBackend
    /\ tuplock' = [tuplock EXCEPT ![q] = b]
    /\ want' = [want EXCEPT ![b][q] = "xid"]
    /\ UNCHANGED <<xactVars, writer, rel, relQueue, gddVars>>

(* The updater waited for has ended: take the row, drop the tuple lock. *)
GetRow(b, q) ==
    /\ want[b][q] = "xid"
    /\ writer[q] = NoBackend
    /\ writer' = [writer EXCEPT ![q] = b]
    /\ tuplock' = [tuplock EXCEPT ![q] = NoBackend]
    /\ want' = [want EXCEPT ![b][q] = "none"]
    /\ UNCHANGED <<xactVars, rel, relQueue, gddVars>>

(* A subtransaction's transaction lock goes when it is rolled back. *)
RollbackToSavepoint(b, q) ==
    /\ Savepoints
    /\ status[b] = "active"
    /\ ~ Waiting(b)
    /\ writer[q] = b
    /\ writer' = [writer EXCEPT ![q] = NoBackend]
    /\ UNCHANGED <<xactVars, tuplock, want, rel, relQueue, gddVars>>

Commit(b) ==
    /\ status[b] = "active"
    /\ ~ Waiting(b)
    /\ status' = [status EXCEPT ![b] = "ending"]
    /\ UNCHANGED <<nextGxid, gxid, endedOn, lockVars, gddVars>>

(* A backend waits for one lock at a time: it is in the queue at most once. *)
RemoveFromWaitQueue(b) ==
    IF Queued(b) THEN \E i \in DOMAIN relQueue :
                         Waiter(i) = b /\ relQueue' = RemoveAt(relQueue, i)
                 ELSE UNCHANGED relQueue

(* The QD stops waiting and starts to abort; its QEs follow one by one. *)
Cancelled(b) ==
    /\ status' = [status EXCEPT ![b] = "ending"]
    /\ RemoveFromWaitQueue(b)
    /\ UNCHANGED <<nextGxid, gxid, endedOn, writer, tuplock, want, rel>>

UserCancel(b) ==
    /\ UserCancels
    /\ status[b] = "active"
    /\ Cancelled(b)
    /\ UNCHANGED gddVars

(* The transaction ends on a segment, by commit or by abort. *)
EndOnSegment(b, q) ==
    /\ status[b] = "ending"
    /\ q \notin endedOn[b]
    /\ endedOn' = [endedOn EXCEPT ![b] = @ \cup {q}]
    /\ writer' = [writer EXCEPT ![q] = IF @ = b THEN NoBackend ELSE @]
    /\ tuplock' = [tuplock EXCEPT ![q] = IF @ = b THEN NoBackend ELSE @]
    /\ want' = [want EXCEPT ![b][q] = "none"]
    /\ UNCHANGED <<nextGxid, gxid, status, rel, relQueue, gddVars>>

(* The gxid leaves the coordinator's proc array, then its locks go. *)
EndGxact(b) ==
    /\ status[b] = "ending"
    /\ endedOn[b] = QE
    /\ gxid' = [gxid EXCEPT ![b] = 0]
    /\ status' = [status EXCEPT ![b] = "ended"]
    /\ UNCHANGED <<nextGxid, endedOn, lockVars, gddVars>>

ReleaseRelation(b) ==
    /\ status[b] = "ended"
    /\ rel' = [rel EXCEPT ![b] = "none"]
    /\ status' = [status EXCEPT ![b] = "idle"]
    /\ endedOn' = [endedOn EXCEPT ![b] = {}]
    /\ UNCHANGED <<nextGxid, gxid, writer, tuplock, want, relQueue, gddVars>>
-----------------------------------------------------------------------------
(* gp_dist_wait_status() on one node.  Ids are kept in a TransactionId.     *)
RowXid(b) == gxid[b] % 2^IntBits

(* Plausible faults, used only as mutants. *)
RowsAllSolid(q) ==
    {<<q, RowXid(b), RowXid(writer[q]), TRUE>> :
        b \in {x \in Backend : want[x][q] = "xid" /\ writer[q] # NoBackend}}
    \cup
    {<<q, RowXid(b), RowXid(tuplock[q]), TRUE>> :
        b \in {x \in Backend : want[x][q] = "tuple" /\ tuplock[q] # NoBackend}}
RowsXidOnly(q) ==
    {<<q, RowXid(b), RowXid(writer[q]), TRUE>> :
        b \in {x \in Backend : want[x][q] = "xid" /\ writer[q] # NoBackend}}

SegmentRows(q) ==
    {<<q, RowXid(b), RowXid(writer[q]), TRUE>> :
        b \in {x \in Backend : want[x][q] = "xid" /\ writer[q] # NoBackend}}
    \cup
    {<<q, RowXid(b), RowXid(tuplock[q]), FALSE>> :
        b \in {x \in Backend : want[x][q] = "tuple" /\ tuplock[q] # NoBackend}}

(* A proclock that waits and holds already counts as granted: isGranted().  *)
CoordRows ==
    {<<Coord, RowXid(w[1]), RowXid(w[2]), TRUE>> :
        w \in {x \in Backend \X Backend :
                 /\ x[1] # x[2]
                 /\ rel[x[1]] = "none"
                 /\ \E i \in DOMAIN relQueue :
                       Waiter(i) = x[1] /\ Conflicts(rel[x[2]], Mode(i))}}

(* A plausible fault, used only as a mutant. *)
BuildUnreduced ==
    /\ pc = "build"
    /\ LET gxids == {gxid[b] : b \in Backend} \ {0}
       IN graph' = {e \in UNION {rows[s] : s \in Seg} :
                       From(e) \in gxids /\ To(e) \in gxids}
    /\ rows' = [s \in Seg |-> {}]
    /\ pc' = "break"
    /\ UNCHANGED <<xactVars, lockVars, pending, victims, pid>>

StartRound ==
    /\ pc = "sleep"
    /\ SlowAbort \/ \A b \in Backend : status[b] # "ending"
    /\ pc' = "collect"
    /\ pending' = Seg
    /\ UNCHANGED <<xactVars, lockVars, rows, graph, victims, pid>>

CollectSegment(q) ==
    /\ pc = "collect"
    /\ q \in pending
    /\ rows' = [rows EXCEPT ![q] = SegmentRows(q)]
    /\ pending' = pending \ {q}
    /\ UNCHANGED <<xactVars, lockVars, pc, graph, victims, pid>>

(* The coordinator's own rows are read after all segments have answered. *)
CollectCoord ==
    /\ pc = "collect"
    /\ pending = {Coord}
    /\ rows' = [rows EXCEPT ![Coord] = CoordRows]
    /\ pending' = {}
    /\ pc' = "build"
    /\ UNCHANGED <<xactVars, lockVars, graph, victims, pid>>

(* ListAllGxid(), the edges between live transactions, GddCtxReduce(). *)
buildWaitGraph ==
    /\ pc = "build"
    /\ LET gxids == {gxid[b] : b \in Backend} \ {0}
       IN graph' = Core({e \in UNION {rows[s] : s \in Seg} :
                            From(e) \in gxids /\ To(e) \in gxids})
    /\ rows' = [s \in Seg |-> {}]
    /\ pc' = "break"
    /\ UNCHANGED <<xactVars, lockVars, pending, victims, pid>>

BreakCycle ==
    /\ pc = "break"
    /\ graph # {}
    /\ LET vid == gddCtxGetMaxVid(graph)
       IN /\ victims' = victims \cup {vid}
          /\ graph' = Core(gddCtxRemoveVid(graph, vid))
    /\ UNCHANGED <<xactVars, lockVars, pc, rows, pending, pid>>

EndBreak ==
    /\ pc = "break"
    /\ graph = {}
    /\ pc' = IF victims = {} THEN "sleep" ELSE "cancel"
    /\ UNCHANGED <<xactVars, lockVars, rows, pending, graph, victims, pid>>

(* Victims are in the order in which they were picked, the youngest first.  *)
NextVictim == CHOOSE v \in victims : \A w \in victims : w <= v

GetPidByGxid ==
    /\ pc = "cancel"
    /\ LET owner == {b \in Backend : gxid[b] = NextVictim}
       IN pid' = IF owner = {} THEN NoBackend ELSE CHOOSE b \in owner : TRUE
    /\ pc' = "signal"
    /\ UNCHANGED <<xactVars, lockVars, rows, pending, graph, victims>>

(* pg_cancel_backend_msg(): ignored by a backend that ends a transaction or *)
(* runs no statement, and without effect for the process id 0.              *)
Signal ==
    /\ pc = "signal"
    /\ victims' = victims \ {NextVictim}
    /\ pc' = IF victims' = {} THEN "sleep" ELSE "cancel"
    /\ pid' = NoBackend
    /\ \/ /\ pid # NoBackend
          /\ status[pid] = "active"
          /\ Cancelled(pid)
       \/ /\ (pid # NoBackend => (status[pid] = "active" => ~ Waiting(pid)))
          /\ UNCHANGED <<xactVars, lockVars>>
    /\ UNCHANGED <<rows, pending, graph>>
-----------------------------------------------------------------------------
Init ==
    /\ nextGxid = CHOOSE v \in Vid : \A w \in Vid : v <= w
    /\ gxid = [b \in Backend |-> 0]
    /\ status = [b \in Backend |-> "idle"]
    /\ endedOn = [b \in Backend |-> {}]
    /\ writer = [q \in QE |-> NoBackend]
    /\ tuplock = [q \in QE |-> NoBackend]
    /\ want = [b \in Backend |-> [q \in QE |-> "none"]]
    /\ rel = [b \in Backend |-> "none"]
    /\ relQueue = <<>>
    /\ pc = "sleep"
    /\ rows = [s \in Seg |-> {}]
    /\ pending = {}
    /\ graph = {}
    /\ victims = {}
    /\ pid = NoBackend

(* What goes on by itself once it can: locks are granted, transactions that *)
(* have begun to end do end.                                                *)
Progress(b) ==
    \/ \E q \in QE : GetTupleLock(b, q) \/ GetRow(b, q) \/ EndOnSegment(b, q)
    \/ EndGxact(b)
    \/ ReleaseRelation(b)

Detector ==
    \/ StartRound
    \/ \E q \in QE : CollectSegment(q)
    \/ CollectCoord
    \/ buildWaitGraph
    \/ BreakCycle
    \/ EndBreak
    \/ GetPidByGxid
    \/ Signal

Next ==
    \/ \E b \in Backend :
          \/ Begin(b)
          \/ \E m \in RelModes : LockRelation(b, m)
          \/ \E q \in QE : Update(b, q) \/ RollbackToSavepoint(b, q)
          \/ Commit(b)
          \/ UserCancel(b)
          \/ Progress(b)
    \/ \E i \in DOMAIN relQueue : GrantRelation(i)
    \/ Detector

Spec == Init /\ [][Next]_vars

(* Clients promise nothing; the lock manager and the detector go on. *)
FairSpec ==
    /\ Spec
    /\ WF_vars(Detector)
    /\ \A b \in Backend : WF_vars(Progress(b))
    /\ WF_vars(\E i \in DOMAIN relQueue : GrantRelation(i))
-----------------------------------------------------------------------------
(* The true waits of the transactions that do not end yet: also those of a  *)
(* lock holder that asks for more, and those behind another waiter, which   *)
(* last as long as that waiter waits.                                       *)
WaitEdges ==
    LET blocked(b) == status[b] = "active"
        edge(s, b, c, solid) == <<s, gxid[b], gxid[c], solid>>
        row(q) == {edge(q, b, writer[q], TRUE) :
                     b \in {x \in Backend : want[x][q] = "xid" /\ blocked(x)
                                              /\ writer[q] # NoBackend}}
        tuple(q) == {edge(q, b, tuplock[q], FALSE) :
                       b \in {x \in Backend : want[x][q] = "tuple" /\ blocked(x)
                                                /\ tuplock[q] # NoBackend}}
        holder(i) == {edge(Coord, Waiter(i), c, TRUE) :
                        c \in {x \in Backend \ {Waiter(i)} : Conflicts(rel[x], Mode(i))}}
        ahead(i) == {edge(Coord, Waiter(i), Waiter(j), FALSE) :
                       j \in {k \in 1 .. i - 1 : Conflicts(Mode(k), Mode(i))}}
    IN  {e \in (UNION {row(q) \cup tuple(q) : q \in QE})
               \cup (UNION {holder(i) \cup ahead(i) : i \in DOMAIN relQueue})
         : 0 \notin {From(e), To(e)}}

(* The waits that gp_dist_wait_status() reports of them. *)
VisibleEdges ==
    LET ending == {gxid[b] : b \in {x \in Backend : status[x] # "active"}}
    IN {e \in CoordRows \cup UNION {SegmentRows(q) : q \in QE} :
           /\ From(e) \notin ending \cup {0}
           /\ To(e) # 0}

(* The detector interrupts only transactions that cannot go on: the waits   *)
(* it combines, though read at different times, still form a deadlock when  *)
(* the signal arrives, and no signal hits a backend's next transaction.     *)
NoFalseAlarm ==
    [][\A b \in Backend :
          (pc = "signal" /\ status[b] = "active" /\ status'[b] = "ending" /\ pc' # pc)
             => gxid[b] \in Deadlocked(WaitEdges)]_vars

(* The assertion of breakDeadLock(): the victim still runs. *)
VictimRuns == pc = "signal" => pid # NoBackend

(* If there is a deadlock it is found and broken. *)
DeadlockBroken ==
    \A v \in Vid : v \in Deadlocked(WaitEdges) ~> v \notin Deadlocked(WaitEdges)

(* A deadlock made of waits the detector can see is broken, however slowly  *)
(* aborts proceed, whatever else is cancelled or rolled back meanwhile.     *)
VisibleDeadlockBroken ==
    \A v \in Vid : v \in Deadlocked(VisibleEdges) ~> v \notin Deadlocked(VisibleEdges)
=============================================================================
