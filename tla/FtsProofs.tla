----------------------------- MODULE FtsProofs -----------------------------
(***************************************************************************)
(* Proofs about Fts: its type invariant, that the segment which the        *)
(* configuration calls primary has every acknowledged commit, and the      *)
(* assertions of processResponse() about a primary that answers as a       *)
(* mirror.                                                                 *)
(***************************************************************************)
EXTENDS Fts, TLAPS, FiniteSetTheorems

-----------------------------------------------------------------------------
(* The inductive invariant                                                 *)

\* A commit that waits for the mirror is in the log of its own segment.
WaitsLogged == \A n \in Node : waits[n] \subseteq Range(log[n])

\* While the configuration calls the pair in sync, the mirror too has every
\* commit that counts: it may be promoted.
MirrorHas == cfg.inSync => acked \ exposed \subseteq Range(log[Peer(cfg.primary)])

\* A request in use was sent to the primary of the configuration by the cycle
\* FTS is in; its answer has not come in.
RequestsCurrent ==
    /\ \A h \in handlers : h.live => /\ h.node = cfg.primary
                                     /\ h.msg = msg
                                     /\ state = "SENT"
                                     /\ ~ arrived
    /\ arrived => state = "SENT"

\* A primary that is yet to be promoted has no mirror.
UnpromotedAlone == acting[cfg.primary] = "mirror" => ~ cfg.mirrorUp

\* The answer FTS holds is about the primary of the configuration as it still is.
AnswerHolds ==
    /\ result.inSync => result.mirrorUp
    /\ result.mirrorUp => acting[cfg.primary] = "primary"
    /\ result.roleMirror => ~ cfg.mirrorUp /\ ~ cfg.inSync /\ ~ result.syncRep

\* Anything but a probe is asked of a pair that is recorded as not in sync.
AskedAlone == msg # "PROBE" => ~ cfg.inSync

\* While the mirror may take over, or has taken over, the file of the (old)
\* primary is empty only if it was emptied late.
LateInv == \A n \in Node : (cfg.inSync \/ n # cfg.primary) /\ ~ conf[n] => late[n]

RoleInv == RequestsCurrent /\ UnpromotedAlone /\ AnswerHolds /\ AskedAlone

LogInv == WaitsLogged /\ NoLostCommit /\ MirrorHas /\ LateInv

-----------------------------------------------------------------------------
(* Facts about the operators of Fts                                        *)

\* The pair has two segments: each is the peer of the other.
LEMMA PeerFact ==
    \A n \in Node : /\ Peer(n) \in Node
                    /\ Peer(n) # n
                    /\ \A m \in Node : m = n \/ m = Peer(n)
<1> SUFFICES ASSUME NEW n \in Node
             PROVE  Peer(n) \in Node /\ Peer(n) # n /\ \A m \in Node : m = n \/ m = Peer(n)
    OBVIOUS
<1>1. IsFiniteSet(Node \ {n}) /\ Cardinality(Node \ {n}) = 1
    BY FS_RemoveElement, FtsAssumption
<1>2. PICK other : Node \ {n} = {other}
    BY <1>1, FS_Singleton
<1>3. other \in Node /\ other # n
    BY <1>2
<1>4. Peer(n) \in Node /\ Peer(n) # n
    BY <1>3 DEF Peer
<1> QED
    BY <1>2, <1>4

\* Two segments are the same or each other's peer.
LEMMA PairFact ==
    ASSUME NEW p \in Node, NEW n \in Node
    PROVE  n = p \/ (n = Peer(p) /\ p = Peer(n))
BY PeerFact, Zenon

\* What a flushed record adds to the records of a log.
LEMMA RangeAppend ==
    ASSUME NEW S, NEW s \in Seq(S), NEW x \in S
    PROVE  Range(Append(s, x)) = Range(s) \cup {x}
<1>1. DOMAIN Append(s, x) = 1 .. Len(s) + 1 /\ DOMAIN s = 1 .. Len(s)
    OBVIOUS
<1>2. Append(s, x)[Len(s) + 1] = x /\ \A i \in 1 .. Len(s) : Append(s, x)[i] = s[i]
    OBVIOUS
<1>3. ASSUME NEW y \in Range(Append(s, x)) PROVE y \in Range(s) \cup {x}
    BY <1>1, <1>2, <1>3 DEF Range
<1>4. ASSUME NEW y \in Range(s) \cup {x} PROVE y \in Range(Append(s, x))
    BY <1>1, <1>2, <1>4 DEF Range
<1> QED
    BY <1>3, <1>4

\* pg_rewind leaves a log of commits.
LEMMA CommonPrefixType ==
    ASSUME NEW s \in Seq(Commit), NEW t \in Seq(Commit)
    PROVE  CommonPrefix(s, t) \in Seq(Commit)
<1> DEFINE K == {k \in 1 .. Len(s) : IsPrefix(SubSeq(s, 1, k), t)}
<1>1. Len(s) \in Nat /\ K \in SUBSET Nat /\ \A k \in K : k <= Len(s)
    OBVIOUS
<1>2. IsFiniteSet(1 .. Len(s)) /\ Cardinality(1 .. Len(s)) = Len(s)
  <2>1. 1 \in Int /\ Len(s) \in Int
      BY <1>1
  <2>2. /\ IsFiniteSet(1 .. Len(s))
        /\ Cardinality(1 .. Len(s)) = IF 1 > Len(s) THEN 0 ELSE Len(s) - 1 + 1
      BY <2>1, FS_Interval, Zenon
  <2> QED
      BY <1>1, <2>2
<1>3. Cardinality(K) \in Nat /\ Cardinality(K) <= Len(s)
    BY <1>2, FS_Subset, FS_CardinalityType, K \subseteq 1 .. Len(s)
<1>4. CommonPrefix(s, t) = SubSeq(s, 1, Cardinality(K))
    BY DEF CommonPrefix
<1> HIDE DEF K
<1>5. \A i \in 1 .. Cardinality(K) : s[i] \in Commit
    BY <1>1, <1>3
<1> QED
    BY <1>3, <1>4, <1>5
-----------------------------------------------------------------------------
(* Type correctness                                                        *)

\* TypeOK in parts: FTS and its flags, the processes and the logs of the segments.
FtsType ==
    /\ cfg \in Config
    /\ cfg.inSync => cfg.mirrorUp
    /\ state \in {"IDLE", "SEGMENT", "SENT", "RETRY_WAIT", "SUCCESS", "FAILED"}
    /\ msg \in Message
    /\ retry \in 0 .. MaxRetry
    /\ result \in Response
    /\ handlers \subseteq Handler

FlagType ==
    /\ restart \in BOOLEAN
    /\ arrived \in BOOLEAN

SegType ==
    /\ proc \in [Node -> {"up", "down", "reset"}]
    /\ acting \in [Node -> {"primary", "mirror"}]
    /\ replaying \in [Node -> BOOLEAN]
    /\ promoting \in [Node -> BOOLEAN]
    /\ conf \in [Node -> BOOLEAN]
    /\ sync \in [Node -> BOOLEAN]
    /\ grace \in [Node -> BOOLEAN]
    /\ gang \in [Node -> BOOLEAN]
    /\ walsnd \in [Node -> {"none", "catchup", "streaming"}]

LateType == late \in [Node -> BOOLEAN]

LogType ==
    /\ log \in [Node -> Seq(Commit)]
    /\ waits \in [Node -> SUBSET Commit]
    /\ acked \subseteq Commit
    /\ exposed \subseteq acked

CountType ==
    /\ nextCommit \in 1 .. MaxCommit + 1
    /\ faults \in 0 .. MaxFault

\* The typed parts of the state, one by one.
LEMMA TypeParts == TypeOK <=> FtsType /\ FlagType /\ SegType /\ LateType /\ LogType /\ CountType
BY DEF TypeOK, FtsType, FlagType, SegType, LateType, LogType, CountType

\* What FTS writes to the configuration, and reads from it.
LEMMA ConfigType ==
    /\ \A p \in Node, up, in \in BOOLEAN :
          [primary |-> p, mirrorUp |-> up, inSync |-> in] \in Config
    /\ \A c \in Config, up, in \in BOOLEAN :
          LET new == [c EXCEPT !.mirrorUp = up, !.inSync = in]
          IN  new \in Config /\ new.primary = c.primary /\ new.mirrorUp = up /\ new.inSync = in
    /\ \A c \in Config : c.primary \in Node /\ c.mirrorUp \in BOOLEAN /\ c.inSync \in BOOLEAN
BY DEF Config

\* The mirror's status is recorded.
LEMMA StatusSet ==
    ASSUME NEW c \in Config, NEW up \in BOOLEAN, NEW in \in BOOLEAN
    PROVE  LET new == [c EXCEPT !.mirrorUp = up, !.inSync = in]
           IN  new.primary = c.primary /\ new.mirrorUp = up /\ new.inSync = in
BY DEF Config

\* The mirror is marked down.
LEMMA MarkedDown ==
    ASSUME NEW c \in Config
    PROVE  LET new == [c EXCEPT !.mirrorUp = FALSE, !.inSync = FALSE]
           IN  new \in Config /\ new.primary = c.primary /\ ~ new.mirrorUp /\ ~ new.inSync
BY ConfigType, Zenon

\* What a segment answers.
LEMMA ResponseType ==
    /\ Nothing \in Response
    /\ [Nothing EXCEPT !.roleMirror = TRUE] \in Response
    /\ \A up, in, rep, role, again \in BOOLEAN :
          [mirrorUp |-> up, inSync |-> in, syncRep |-> rep,
           roleMirror |-> role, requestRetry |-> again] \in Response
    /\ \A r \in Response : r.mirrorUp \in BOOLEAN /\ r.inSync \in BOOLEAN
BY DEF Nothing, Response

\* A handler whose request was given up is still a handler.
LEMMA HandlerType ==
    ASSUME handlers \subseteq Handler
    PROVE  /\ {[h EXCEPT !.live = FALSE] : h \in handlers} \subseteq Handler
           /\ \A h \in handlers : h.node \in Node /\ h.live \in BOOLEAN
BY DEF Handler

\* Flags that each segment has.
LEMMA SetFlag ==
    \A f \in [Node -> BOOLEAN], n \in Node, b \in BOOLEAN :
       /\ [f EXCEPT ![n] = b] \in [Node -> BOOLEAN]
       /\ [f EXCEPT ![n] = @ \/ b] \in [Node -> BOOLEAN]
       /\ [f EXCEPT ![n] = @ /\ ~ b] \in [Node -> BOOLEAN]
OBVIOUS

\* What RecordStatus does to the configuration.
LEMMA StatusRecorded ==
    ASSUME cfg \in Config, result \in Response, RecordStatus
    PROVE  /\ cfg'.primary = cfg.primary
           /\ cfg'.mirrorUp = result.mirrorUp
           /\ cfg'.inSync = result.inSync
<1>1. result.mirrorUp \in BOOLEAN /\ result.inSync \in BOOLEAN
    BY ResponseType
<1>2. cfg' = [cfg EXCEPT !.mirrorUp = result.mirrorUp, !.inSync = result.inSync]
    BY DEF RecordStatus, updateConfiguration
<1>3. /\ [cfg EXCEPT !.mirrorUp = result.mirrorUp, !.inSync = result.inSync].primary = cfg.primary
      /\ [cfg EXCEPT !.mirrorUp = result.mirrorUp, !.inSync = result.inSync].mirrorUp = result.mirrorUp
      /\ [cfg EXCEPT !.mirrorUp = result.mirrorUp, !.inSync = result.inSync].inSync = result.inSync
    BY <1>1, StatusSet
<1> QED
    BY <1>2, <1>3

\* The empty response is one.
LEMMA NothingType == Nothing \in Response
BY ResponseType

\* The bounds are numbers.
LEMMA BoundsType == MaxRetry \in Nat /\ MaxCommit \in Nat /\ MaxFault \in Nat
BY FtsAssumption

\* The initial state is well typed.
LEMMA TypeInit == Init => TypeOK
<1> SUFFICES ASSUME Init PROVE FtsType /\ FlagType /\ SegType /\ LateType /\ LogType /\ CountType
    BY TypeParts
<1>1. FtsType
  <2>1. cfg \in Config /\ (cfg.inSync => cfg.mirrorUp)
      BY FtsAssumption, ConfigType DEF Init
  <2> QED
      BY <2>1, BoundsType, NothingType DEF Init, FtsType, Message
<1>2. SegType /\ LateType
    BY DEF Init, SegType, LateType
<1>3. LogType
    BY DEF Init, LogType
<1>4. FlagType
    BY Zenon DEF Init, FlagType
<1>5. CountType
    BY BoundsType DEF Init, CountType
<1> QED
    BY <1>1, <1>2, <1>3, <1>4, <1>5

\* FTS and the requests it makes.
LEMMA FtsTypeStep == FtsType /\ SegType /\ AnswerHolds /\ [Next]_vars => FtsType'
<1> SUFFICES ASSUME FtsType, SegType, AnswerHolds, [Next]_vars PROVE FtsType'
    OBVIOUS
<1> USE BoundsType, PeerFact DEF FtsType, SegType, Message
<1>1. CASE StartCycle
    BY NothingType, <1>1 DEF StartCycle, ftsVars
<1>2. CASE ConnectFails
    BY NothingType, <1>2 DEF ConnectFails, ftsVars
<1>3. CASE ftsSend
  <2>1. [node |-> cfg.primary, msg |-> msg, live |-> TRUE] \in Handler
      BY ConfigType DEF Handler
  <2> QED
      BY <2>1, <1>3 DEF ftsSend
<1>4. CASE ftsReceive
    BY NothingType, <1>4 DEF ftsReceive, ftsVars
<1>5. CASE ConnectionLost
    BY NothingType, <1>5 DEF ConnectionLost, ftsVars
<1>6. CASE retryForFtsFailed
    BY NothingType, <1>6 DEF retryForFtsFailed, RetryDue, ftsVars
<1>7. CASE RetryWaited
    BY NothingType, <1>7 DEF RetryWaited, ftsVars
<1>8. CASE MirrorGone
  <2>1. cfg' \in Config /\ (cfg'.inSync => cfg'.mirrorUp)
    <3>1. CASE result.requestRetry
        BY <3>1, <1>8 DEF MirrorGone
    <3>2. CASE ~ result.requestRetry
        BY <3>2, <1>8, MarkedDown DEF MirrorGone, updateConfiguration
    <3> QED
        BY <3>1, <3>2
  <2> QED
      BY NothingType, <2>1, <1>8 DEF MirrorGone, Ready, RetryDue, Ask, Processed
<1>9. CASE ResendPromote
    BY NothingType, <1>9 DEF ResendPromote, Ready, RetryDue, Ask, ftsVars
<1>10. CASE RecordStatus
  <2>1. cfg' \in Config /\ (cfg'.inSync => cfg'.mirrorUp)
      BY ConfigType, ResponseType, <1>10 DEF RecordStatus, updateConfiguration, AnswerHolds
  <2> QED
      BY NothingType, <2>1, <1>10 DEF RecordStatus, Ready, RetryDue, Processed
<1>11. CASE FailOver
  <2>1. cfg' \in Config /\ (cfg'.inSync => cfg'.mirrorUp)
      BY ConfigType, ResponseType, <1>11 DEF FailOver, updateConfiguration
  <2> QED
      BY NothingType, <2>1, <1>11 DEF FailOver, Ready, RetryDue, Ask
<1>12. CASE LeavePrimary
    BY NothingType, <1>12 DEF LeavePrimary, Ready, RetryDue, Processed, ftsVars
<1>13. CASE LogOutcome
    BY NothingType, <1>13 DEF LogOutcome, Ready, RetryDue, Processed, ftsVars
<1>14. CASE ftsCheckTimeout
  <2>1. handlers' \subseteq Handler
      BY HandlerType, <1>14 DEF ftsCheckTimeout
  <2> QED
      BY <2>1, <1>14, NothingType DEF ftsCheckTimeout, Fault
<1>15. CASE FtsRestarts
  <2>1. handlers' \subseteq Handler
      BY HandlerType, <1>15 DEF FtsRestarts
  <2> QED
      BY <2>1, <1>15, NothingType DEF FtsRestarts, Processed
<1>16. ASSUME NEW h \in handlers, HandleProbe(h) PROVE FtsType'
  <2>1. h.node \in Node /\ h.live \in BOOLEAN
      BY HandlerType
  <2> DEFINE n == h.node
             response(ready) ==
                [mirrorUp |-> walsnd[n] # "none", inSync |-> walsnd[n] = "streaming",
                 syncRep |-> sync[n] \/ ready, roleMirror |-> FALSE,
                 requestRetry |-> ~ (walsnd[n] # "none") /\ grace[n]]
  <2>3. \A ready \in BOOLEAN : response(ready) \in Response
      BY ResponseType, Zenon
  <2>4. PICK ready \in BOOLEAN : Answer(h, response(ready))
      BY <1>16 DEF HandleProbe
  <2>2. result' \in Response
      BY <2>1, <2>3, <2>4 DEF Answer
  <2> QED
      BY <2>1, <2>2, <1>16 DEF HandleProbe, Answer
<1>17. ASSUME NEW h \in handlers, HandleProbeOfMirror(h) PROVE FtsType'
  <2>1. h.live \in BOOLEAN /\ [Nothing EXCEPT !.roleMirror = TRUE] \in Response
      BY HandlerType, ResponseType
  <2> QED
      BY <2>1, <1>17, NothingType DEF HandleProbeOfMirror, Answer
<1>18. ASSUME NEW h \in handlers, HandleSyncRepOff(h) PROVE FtsType'
  <2>1. h.live \in BOOLEAN /\ [Nothing EXCEPT !.roleMirror = TRUE] \in Response
      BY HandlerType, ResponseType
  <2> QED
      BY <2>1, <1>18, NothingType DEF HandleSyncRepOff, Answer
<1>19. ASSUME NEW h \in handlers, HandlePromote(h) PROVE FtsType'
  <2>1. h.live \in BOOLEAN /\ [Nothing EXCEPT !.roleMirror = TRUE] \in Response
      BY HandlerType, ResponseType
  <2> QED
      BY <2>1, <1>19, NothingType DEF HandlePromote, Answer
<1>20. ASSUME NEW n \in Node, Crash(n) PROVE FtsType'
    BY NothingType, <1>20 DEF Crash, Fault, Stopped, ftsVars
<1>21. ASSUME NEW n \in Node, RecoverSegment(n) PROVE FtsType'
    BY NothingType, <1>21 DEF RecoverSegment, Stopped, ftsVars
<1>22. CASE UNCHANGED <<cfg, ftsVars, handlers>>
    BY <1>22 DEF ftsVars
<1> QED
    BY <1>1, <1>2, <1>3, <1>4, <1>5, <1>6, <1>7, <1>8, <1>9, <1>10, <1>11, <1>12, <1>13,
       <1>14, <1>15, <1>16, <1>17, <1>18, <1>19, <1>20, <1>21, <1>22 DEF Next, FtsStep,
       Handle, Replicate, vars, ftsVars, segVars, walVars, histVars, ReleaseWaiters,
       WalSndCaughtUp, MirrorFlushes, UpdateSyncStandbysDefined, GraceEnds, StartReplay, Promoted,
       CommitRecord, WalSndConnects, WalSndBreaks, Fault, Restart

\* What FTS knows of a request.
LEMMA FlagTypeStep == FtsType /\ FlagType /\ [Next]_vars => FlagType'
<1> SUFFICES ASSUME FtsType, FlagType, [Next]_vars PROVE FlagType'
    OBVIOUS
<1> USE DEF FtsType, FlagType
<1>1. CASE StartCycle
    BY HandlerType, Zenon, <1>1 DEF StartCycle, ftsVars
<1>2. CASE ConnectFails
    BY HandlerType, Zenon, <1>2 DEF ConnectFails, ftsVars
<1>3. CASE ftsSend
    BY HandlerType, Zenon, <1>3 DEF ftsSend, Handler, ftsVars
<1>4. CASE ftsReceive
    BY HandlerType, Zenon, <1>4 DEF ftsReceive, ftsVars
<1>5. CASE ConnectionLost
    BY HandlerType, Zenon, <1>5 DEF ConnectionLost, ftsVars
<1>6. CASE retryForFtsFailed
    BY HandlerType, Zenon, <1>6 DEF retryForFtsFailed, RetryDue, ftsVars
<1>7. CASE RetryWaited
    BY HandlerType, Zenon, <1>7 DEF RetryWaited, ftsVars
<1>8. CASE MirrorGone
    BY HandlerType, Zenon, <1>8 DEF MirrorGone, Ready, RetryDue, updateConfiguration,
       Ask, Processed, ftsVars
<1>9. CASE ResendPromote
    BY HandlerType, Zenon, <1>9 DEF ResendPromote, Ready, RetryDue, Ask, ftsVars
<1>10. CASE RecordStatus
    BY HandlerType, Zenon, <1>10 DEF RecordStatus, Ready, RetryDue, updateConfiguration,
       Processed, ftsVars
<1>11. CASE FailOver
    BY HandlerType, Zenon, <1>11 DEF FailOver, Ready, RetryDue, updateConfiguration,
       Ask, ftsVars
<1>12. CASE LeavePrimary
    BY HandlerType, Zenon, <1>12 DEF LeavePrimary, Ready, RetryDue, Processed, ftsVars
<1>13. CASE LogOutcome
    BY HandlerType, Zenon, <1>13 DEF LogOutcome, Ready, RetryDue, Processed, ftsVars
<1>14. CASE ftsCheckTimeout
    BY HandlerType, Zenon, <1>14 DEF ftsCheckTimeout, Fault, Handler, ftsVars
<1>15. CASE FtsRestarts
    BY HandlerType, Zenon, <1>15 DEF FtsRestarts, Fault, Processed, Handler, ftsVars
<1>16. ASSUME NEW h \in handlers, HandleProbe(h) PROVE FlagType'
    BY HandlerType, Zenon, <1>16 DEF HandleProbe, Answer, ftsVars
<1>17. ASSUME NEW h \in handlers, HandleProbeOfMirror(h) PROVE FlagType'
    BY HandlerType, Zenon, <1>17 DEF HandleProbeOfMirror, Answer, ftsVars
<1>18. ASSUME NEW h \in handlers, HandleSyncRepOff(h) PROVE FlagType'
    BY HandlerType, Zenon, <1>18 DEF HandleSyncRepOff, Answer, UnsetSyncStandbysDefined,
       ftsVars
<1>19. ASSUME NEW h \in handlers, HandlePromote(h) PROVE FlagType'
    BY HandlerType, Zenon, <1>19 DEF HandlePromote, Answer, UnsetSyncStandbysDefined,
       ftsVars
<1>20. CASE UNCHANGED <<restart, arrived>>
    BY <1>20 DEF ftsVars
<1> QED
    BY <1>1, <1>2, <1>3, <1>4, <1>5, <1>6, <1>7, <1>8, <1>9, <1>10, <1>11, <1>12, <1>13,
       <1>14, <1>15, <1>16, <1>17, <1>18, <1>19, <1>20 DEF Next, FtsStep, Handle,
       Replicate, vars, ftsVars, segVars, walVars, histVars, ReleaseWaiters,
       WalSndCaughtUp, MirrorFlushes, UpdateSyncStandbysDefined, GraceEnds, StartReplay, Promoted,
       CommitRecord, WalSndConnects, WalSndBreaks, Fault, Crash, Stopped, Restart,
       RecoverSegment

\* The processes of the segments.
LEMMA SegTypeStep == FtsType /\ SegType /\ [Next]_vars => SegType'
<1> SUFFICES ASSUME FtsType, SegType, [Next]_vars PROVE SegType'
    OBVIOUS
<1> USE DEF FtsType, SegType
<1>1. ASSUME NEW h \in handlers, HandleProbe(h) PROVE SegType'
  <2>1. h.node \in Node
      BY HandlerType
  <2>2. conf' \in [Node -> BOOLEAN]
      BY <2>1, <1>1, SetFlag DEF HandleProbe, SetSyncStandbysDefined
  <2> QED
      BY <2>2, <1>1 DEF HandleProbe, Answer, walVars
<1>2. ASSUME NEW h \in handlers, HandleProbeOfMirror(h) PROVE SegType'
    BY PeerFact, SetFlag, <1>2 DEF HandleProbeOfMirror, Answer, segVars, walVars
<1>3. ASSUME NEW h \in handlers, HandleSyncRepOff(h) PROVE SegType'
  <2>1. h.node \in Node
      BY HandlerType
  <2>2. conf' \in [Node -> BOOLEAN]
      BY <2>1, <1>3, SetFlag DEF HandleSyncRepOff, UnsetSyncStandbysDefined
  <2>3. PICK still \in {FALSE, grace[h.node]} : grace' = [grace EXCEPT ![h.node] = still]
      BY <1>3 DEF HandleSyncRepOff
  <2>4. grace' \in [Node -> BOOLEAN]
    <3>1. CASE still = FALSE
        BY <2>3, <3>1
    <3>2. CASE still = grace[h.node]
        BY <2>3, <3>2
    <3> QED
        BY <3>1, <3>2
  <2> QED
      BY <2>2, <2>4, <1>3 DEF HandleSyncRepOff, Answer, walVars
<1>4. ASSUME NEW h \in handlers, HandlePromote(h) PROVE SegType'
  <2>1. h.node \in Node
      BY HandlerType
  <2>2. CASE replaying[h.node]
    <3>1. /\ conf' = [conf EXCEPT ![h.node] = conf[h.node] /\ ~ sync[h.node]]
          /\ promoting' = [promoting EXCEPT ![h.node] = TRUE]
        BY <2>2, <1>4 DEF HandlePromote, UnsetSyncStandbysDefined
    <3>2. conf' \in [Node -> BOOLEAN]
        BY <2>1, <3>1, SetFlag
    <3>3. promoting' \in [Node -> BOOLEAN]
        BY <2>1, <3>1
    <3> QED
        BY <3>2, <3>3, <1>4 DEF HandlePromote, Answer, walVars
  <2>3. CASE ~ replaying[h.node]
      BY <2>3, <1>4 DEF HandlePromote, Answer, walVars
  <2> QED
      BY <2>2, <2>3
<1>5. ASSUME NEW n \in Node, WalSndCaughtUp(n) PROVE SegType'
    BY PeerFact, SetFlag, <1>5 DEF WalSndCaughtUp, segVars, walVars
<1>6. ASSUME NEW n \in Node, UpdateSyncStandbysDefined(n) PROVE SegType'
    BY PeerFact, SetFlag, <1>6 DEF UpdateSyncStandbysDefined, AckAlone, segVars, walVars
<1>7. ASSUME NEW n \in Node, GraceEnds(n) PROVE SegType'
    BY PeerFact, SetFlag, <1>7 DEF GraceEnds, segVars, walVars
<1>8. ASSUME NEW n \in Node, Promoted(n) PROVE SegType'
    BY PeerFact, SetFlag, <1>8 DEF Promoted, segVars, walVars
<1>9. ASSUME NEW n \in Node, CommitRecord(n) PROVE SegType'
    BY PeerFact, SetFlag, <1>9 DEF CommitRecord, AckAlone, segVars, walVars
<1>10. ASSUME NEW n \in Node, WalSndConnects(n) PROVE SegType'
    BY PeerFact, SetFlag, <1>10 DEF WalSndConnects, segVars, walVars
<1>11. ASSUME NEW n \in Node, WalSndBreaks(n) PROVE SegType'
    BY PeerFact, SetFlag, <1>11 DEF WalSndBreaks, Fault, segVars, walVars
<1>12. ASSUME NEW n \in Node, Crash(n) PROVE SegType'
  <2>1. PICK to \in {"down", "reset"} : Stopped(n, to)
      BY <1>12 DEF Crash
  <2>2. grace' \in [Node -> BOOLEAN]
      BY <1>12 DEF Crash
  <2> QED
      BY <2>1, <2>2, <1>12, SetFlag DEF Crash, Stopped
<1>13. ASSUME NEW n \in Node, Restart(n) \/ StartReplay(n) PROVE SegType'
  <2>1. CASE Restart(n)
      BY <2>1 DEF Restart, walVars
  <2>2. CASE StartReplay(n)
      BY <2>2 DEF StartReplay, walVars
  <2> QED
      BY <1>13, <2>1, <2>2
<1>14. ASSUME NEW n \in Node, RecoverSegment(n) PROVE SegType'
  <2>1. cfg.primary \in Node
      BY ConfigType
  <2> QED
      BY <2>1, <1>14 DEF RecoverSegment, Stopped
<1>15. CASE UNCHANGED <<proc, acting, replaying, promoting, conf, sync, grace, gang, walsnd>>
    BY <1>15 DEF segVars, walVars
<1> QED
    BY <1>1, <1>2, <1>3, <1>4, <1>5, <1>6, <1>7, <1>8, <1>9, <1>10, <1>11, <1>12, <1>13,
       <1>14, <1>15 DEF Next, FtsStep, Handle, Replicate, vars, ftsVars, segVars,
       walVars, histVars, StartCycle, ConnectFails, ftsSend, Handler, ftsReceive,
       ConnectionLost, retryForFtsFailed, RetryWaited, MirrorGone, Ready,
       updateConfiguration, Ask, Processed, ResendPromote, RecordStatus, FailOver,
       LeavePrimary, LogOutcome, ftsCheckTimeout, Fault, FtsRestarts, ReleaseWaiters,
       MirrorFlushes

\* Which files were emptied late.
LEMMA LateTypeStep == FtsType /\ LateType /\ [Next]_vars => LateType'
<1> SUFFICES ASSUME FtsType, LateType, [Next]_vars PROVE LateType'
    OBVIOUS
<1> USE DEF LateType
<1>1. ASSUME NEW new, updateConfiguration(new) PROVE LateType'
    BY <1>1 DEF updateConfiguration
<1>2. ASSUME NEW h \in handlers, UnsetSyncStandbysDefined(h) PROVE LateType'
  <2>1. h.live \in BOOLEAN
      BY HandlerType DEF FtsType
  <2> QED
      BY <2>1, <1>2 DEF UnsetSyncStandbysDefined
<1>3. ASSUME NEW n \in Node, NEW ready \in BOOLEAN, SetSyncStandbysDefined(n, ready) PROVE LateType'
    BY <1>3 DEF SetSyncStandbysDefined
<1>4. ASSUME NEW n \in Node, RecoverSegment(n) PROVE LateType'
    BY <1>4 DEF RecoverSegment
<1>5. CASE UNCHANGED late
    BY <1>5
<1>6. CASE MirrorGone \/ RecordStatus \/ FailOver
    BY <1>1, <1>5, <1>6 DEF MirrorGone, RecordStatus, FailOver
<1>7. ASSUME NEW h \in handlers, Handle(h) PROVE LateType'
  <2>1. CASE HandleProbe(h)
    <3>1. h.node \in Node
        BY HandlerType DEF FtsType
    <3> QED
        BY <3>1, <2>1, <1>3 DEF HandleProbe
  <2>2. CASE HandleProbeOfMirror(h)
      BY <2>2, <1>5 DEF HandleProbeOfMirror
  <2>3. CASE HandleSyncRepOff(h)
      BY <2>3, <1>2 DEF HandleSyncRepOff
  <2>4. CASE HandlePromote(h)
      BY <2>4, <1>2, <1>5 DEF HandlePromote
  <2> QED
      BY <1>7, <2>1, <2>2, <2>3, <2>4 DEF Handle
<1> QED
    BY <1>4, <1>5, <1>6, <1>7 DEF Next, FtsStep, Replicate, vars, histVars, StartCycle,
       ConnectFails, ftsSend, ftsReceive, ConnectionLost, retryForFtsFailed, RetryWaited,
       ResendPromote, LeavePrimary, LogOutcome, ftsCheckTimeout, FtsRestarts, ReleaseWaiters,
       WalSndCaughtUp, MirrorFlushes, UpdateSyncStandbysDefined, AckAlone, GraceEnds,
       StartReplay, Promoted, CommitRecord, WalSndConnects, WalSndBreaks, Crash, Restart

\* The logs and the commits.
LEMMA LogTypeStep == FtsType /\ LogType /\ [Next]_vars => LogType'
<1> SUFFICES ASSUME FtsType, LogType, [Next]_vars PROVE LogType'
    OBVIOUS
<1> USE DEF FtsType, LogType
<1>1. CASE MirrorGone
    BY ConfigType, <1>1 DEF MirrorGone, Ready, RetryDue, updateConfiguration, Ask,
       Processed, segVars, walVars, histVars
<1>2. CASE RecordStatus
    BY ConfigType, <1>2 DEF RecordStatus, Ready, RetryDue, updateConfiguration,
       Processed, segVars, walVars, histVars
<1>3. CASE FailOver
    BY ConfigType, <1>3 DEF FailOver, Ready, RetryDue, updateConfiguration, Ask,
       segVars, walVars, histVars
<1>4. ASSUME NEW n \in Node, ReleaseWaiters(n) PROVE LogType'
    BY ConfigType, <1>4 DEF ReleaseWaiters, segVars, walVars, histVars
<1>5. ASSUME NEW n \in Node, MirrorFlushes(n) PROVE LogType'
  <2> DEFINE m == Peer(n)
  <2>1. m \in Node /\ log[n] \in Seq(Commit) /\ log[m] \in Seq(Commit)
      BY PeerFact
  <2>2. log[n][Len(log[m]) + 1] \in Commit
      BY <2>1, <1>5 DEF MirrorFlushes
  <2>3. Append(log[m], log[n][Len(log[m]) + 1]) \in Seq(Commit)
      BY <2>1, <2>2
  <2> QED
      BY <2>1, <2>3, <1>5 DEF MirrorFlushes, segVars, histVars
<1>6. ASSUME NEW n \in Node, UpdateSyncStandbysDefined(n) PROVE LogType'
    BY ConfigType, <1>6 DEF UpdateSyncStandbysDefined, AckAlone, segVars, walVars,
       histVars
<1>7. ASSUME NEW n \in Node, CommitRecord(n) PROVE LogType'
  <2>1. log' \in [Node -> Seq(Commit)]
      BY <1>7 DEF CommitRecord
  <2>2. waits' \in [Node -> SUBSET Commit]
      BY <1>7 DEF CommitRecord
  <2>3. acked' \subseteq Commit /\ exposed' \subseteq acked'
      BY <1>7 DEF CommitRecord, AckAlone, histVars
  <2> QED
      BY <2>1, <2>2, <2>3
<1>8. ASSUME NEW n \in Node, Crash(n) PROVE LogType'
    BY ConfigType, <1>8 DEF Crash, Fault, Stopped, segVars, walVars, histVars
<1>9. ASSUME NEW n \in Node, RecoverSegment(n) PROVE LogType'
  <2>1. CommonPrefix(log[n], log[cfg.primary]) \in Seq(Commit)
      BY ConfigType, CommonPrefixType
  <2> QED
      BY <2>1, <1>9 DEF RecoverSegment, Stopped, histVars
<1>10. CASE UNCHANGED <<log, waits, histVars>>
    BY <1>10 DEF segVars, walVars, histVars
<1> QED
    BY <1>1, <1>2, <1>3, <1>4, <1>5, <1>6, <1>7, <1>8, <1>9, <1>10 DEF Next, FtsStep,
       Handle, Replicate, vars, ftsVars, segVars, walVars, histVars, StartCycle,
       ConnectFails, ftsSend, Handler, ftsReceive, ConnectionLost, retryForFtsFailed,
       RetryWaited, ResendPromote, Ready, Ask, LeavePrimary, Processed, LogOutcome,
       ftsCheckTimeout, Fault, FtsRestarts, HandleProbe, Answer, HandleProbeOfMirror,
       HandleSyncRepOff, HandlePromote, WalSndCaughtUp, GraceEnds, StartReplay, Promoted,
       WalSndConnects, WalSndBreaks, Restart

\* The bounds.
LEMMA CountTypeStep == CountType /\ [Next]_vars => CountType'
<1> SUFFICES ASSUME CountType, [Next]_vars PROVE CountType'
    OBVIOUS
<1> USE BoundsType DEF CountType, Commit
<1>1. CASE ftsCheckTimeout
    BY <1>1 DEF ftsCheckTimeout, Fault, Handler
<1>2. CASE FtsRestarts
    BY <1>2 DEF FtsRestarts, Fault, Processed, Handler
<1>3. ASSUME NEW n \in Node, CommitRecord(n) PROVE CountType'
    BY <1>3 DEF CommitRecord, AckAlone
<1>4. ASSUME NEW n \in Node, WalSndBreaks(n) PROVE CountType'
    BY <1>4 DEF WalSndBreaks, Fault
<1>5. ASSUME NEW n \in Node, Crash(n) PROVE CountType'
    BY <1>5 DEF Crash, Fault, Stopped
<1>6. CASE UNCHANGED <<nextCommit, faults>>
    BY <1>6
<1> QED
    BY <1>1, <1>2, <1>3, <1>4, <1>5, <1>6 DEF Next, FtsStep, Handle, Replicate, vars,
       ftsVars, segVars, walVars, histVars, StartCycle, ConnectFails, ftsSend, Handler,
       ftsReceive, ConnectionLost, retryForFtsFailed, RetryWaited, MirrorGone, Ready,
       updateConfiguration, Ask, Processed, ResendPromote, RecordStatus, FailOver,
       LeavePrimary, LogOutcome, HandleProbe, Answer, HandleProbeOfMirror,
       HandleSyncRepOff, HandlePromote, ReleaseWaiters, WalSndCaughtUp, MirrorFlushes,
       UpdateSyncStandbysDefined, GraceEnds, StartReplay, Promoted, WalSndConnects, Restart,
       RecoverSegment, Stopped

\* Every step preserves the types.
LEMMA TypeStep == TypeOK /\ AnswerHolds /\ [Next]_vars => TypeOK'
BY TypeParts, FtsTypeStep, FlagTypeStep, SegTypeStep, LateTypeStep, LogTypeStep, CountTypeStep, PTL

-----------------------------------------------------------------------------
(* Requests, answers and roles                                             *)

\* The roles and the configuration agree at the start.
LEMMA RoleInit == Init => RoleInv
<1> SUFFICES ASSUME Init PROVE RoleInv
    OBVIOUS
<1>1. RequestsCurrent
    BY Zenon DEF Init, RequestsCurrent
<1>2. cfg.primary = First /\ acting[First] = "primary"
    BY FtsAssumption DEF Init
<1>3. UnpromotedAlone
    BY <1>2 DEF UnpromotedAlone
<1>4. AnswerHolds
    BY <1>2 DEF Init, AnswerHolds, Nothing
<1>5. AskedAlone
    BY DEF Init, AskedAlone
<1> QED
    BY <1>1, <1>3, <1>4, <1>5 DEF RoleInv

\* There is one request at a time.
LEMMA OneLive ==
    ASSUME FtsType, RequestsCurrent, NEW g \in handlers, NEW h \in handlers, g.live, h.live
    PROVE  g = h
<1>1. g \in Handler /\ h \in Handler /\ g.node = h.node /\ g.msg = h.msg
    BY DEF FtsType, RequestsCurrent
<1>2. g.live = h.live
    BY <1>1, Zenon DEF Handler
<1> QED
    BY <1>1, <1>2 DEF Handler

\* Requests are current.
LEMMA RequestsStep == FtsType /\ FlagType /\ RequestsCurrent /\ [Next]_vars => RequestsCurrent'
<1> SUFFICES ASSUME FtsType, FlagType, RequestsCurrent, [Next]_vars PROVE RequestsCurrent'
    OBVIOUS
<1> USE DEF FtsType, FlagType, RequestsCurrent
<1>1. CASE StartCycle
    BY <1>1 DEF StartCycle, ftsVars
<1>2. CASE ConnectFails
    BY <1>2 DEF ConnectFails, ftsVars
<1>3. CASE ftsSend
    BY <1>3 DEF ftsSend, Handler, ftsVars
<1>4. CASE ftsReceive
    BY <1>4 DEF ftsReceive, ftsVars
<1>5. CASE ConnectionLost
    BY <1>5 DEF ConnectionLost, ftsVars
<1>6. CASE retryForFtsFailed
    BY <1>6 DEF retryForFtsFailed, RetryDue, ftsVars
<1>7. CASE RetryWaited
    BY <1>7 DEF RetryWaited, ftsVars
<1>8. CASE MirrorGone
    BY <1>8 DEF MirrorGone, Ready, RetryDue, updateConfiguration, Ask, Processed,
       ftsVars
<1>9. CASE ResendPromote
    BY <1>9 DEF ResendPromote, Ready, RetryDue, Ask, ftsVars
<1>10. CASE RecordStatus
    BY <1>10 DEF RecordStatus, Ready, RetryDue, updateConfiguration, Processed, ftsVars
<1>11. CASE FailOver
    BY <1>11 DEF FailOver, Ready, RetryDue, updateConfiguration, Ask, ftsVars
<1>12. CASE LeavePrimary
    BY <1>12 DEF LeavePrimary, Ready, RetryDue, Processed, ftsVars
<1>13. CASE LogOutcome
    BY <1>13 DEF LogOutcome, Ready, RetryDue, Processed, ftsVars
<1>14. CASE ftsCheckTimeout
    BY <1>14 DEF ftsCheckTimeout, Fault, Handler, ftsVars
<1>15. CASE FtsRestarts
    BY <1>15 DEF FtsRestarts, Fault, Processed, Handler, ftsVars
<1>16. ASSUME NEW h \in handlers, HandleProbe(h) PROVE RequestsCurrent'
  <2>1. CASE h.live
      BY <2>1, <1>16, OneLive DEF HandleProbe, Answer
  <2>2. CASE ~ h.live
      BY <2>2, <1>16 DEF HandleProbe, Answer
  <2> QED
      BY <2>1, <2>2
<1>17. ASSUME NEW h \in handlers, HandleProbeOfMirror(h) PROVE RequestsCurrent'
  <2>1. CASE h.live
      BY <2>1, <1>17, OneLive DEF HandleProbeOfMirror, Answer
  <2>2. CASE ~ h.live
      BY <2>2, <1>17 DEF HandleProbeOfMirror, Answer
  <2> QED
      BY <2>1, <2>2
<1>18. ASSUME NEW h \in handlers, HandleSyncRepOff(h) PROVE RequestsCurrent'
  <2>1. CASE h.live
      BY <2>1, <1>18, OneLive DEF HandleSyncRepOff, Answer
  <2>2. CASE ~ h.live
      BY <2>2, <1>18 DEF HandleSyncRepOff, Answer
  <2> QED
      BY <2>1, <2>2
<1>19. ASSUME NEW h \in handlers, HandlePromote(h) PROVE RequestsCurrent'
  <2>1. CASE h.live
      BY <2>1, <1>19, OneLive DEF HandlePromote, Answer
  <2>2. CASE ~ h.live
      BY <2>2, <1>19 DEF HandlePromote, Answer
  <2> QED
      BY <2>1, <2>2
<1>20. ASSUME NEW n \in Node, Crash(n) PROVE RequestsCurrent'
    BY <1>20 DEF Crash, Fault, Stopped, ftsVars
<1>21. ASSUME NEW n \in Node, RecoverSegment(n) PROVE RequestsCurrent'
    BY <1>21 DEF RecoverSegment, Stopped, ftsVars
<1>22. CASE UNCHANGED <<cfg, ftsVars, handlers>>
    BY <1>22 DEF ftsVars
<1> QED
    BY <1>1, <1>2, <1>3, <1>4, <1>5, <1>6, <1>7, <1>8, <1>9, <1>10, <1>11, <1>12, <1>13,
       <1>14, <1>15, <1>16, <1>17, <1>18, <1>19, <1>20, <1>21, <1>22 DEF Next, FtsStep,
       Handle, Replicate, vars, ftsVars, segVars, walVars, histVars, ReleaseWaiters,
       WalSndCaughtUp, MirrorFlushes, UpdateSyncStandbysDefined, GraceEnds, StartReplay, Promoted,
       CommitRecord, WalSndConnects, WalSndBreaks, Fault, Restart

\* A mirror that is recorded up has a promoted primary.
LEMMA UnpromotedStep == FtsType /\ SegType /\ RoleInv /\ [Next]_vars => UnpromotedAlone'
<1> SUFFICES ASSUME FtsType, SegType, RoleInv, [Next]_vars PROVE UnpromotedAlone'
    OBVIOUS
<1> USE DEF FtsType, SegType, RoleInv, AnswerHolds, UnpromotedAlone
<1>1. CASE MirrorGone
  <2>1. CASE result.requestRetry
      BY <2>1, <1>1 DEF MirrorGone, Ready, segVars
  <2>2. CASE ~ result.requestRetry
      BY <2>2, <1>1, MarkedDown DEF MirrorGone, updateConfiguration
  <2> QED
      BY <2>1, <2>2
<1>2. CASE RecordStatus
  <2>1. cfg'.primary = cfg.primary /\ cfg'.mirrorUp = result.mirrorUp
      BY <1>2, StatusRecorded
  <2>2. acting' = acting
      BY <1>2 DEF RecordStatus, Ready, segVars
  <2> QED
      BY <2>1, <2>2
<1>3. CASE FailOver
    BY <1>3 DEF FailOver, Ready, RetryDue, updateConfiguration, Ask
<1>4. ASSUME NEW n \in Node, Promoted(n) PROVE UnpromotedAlone'
    BY <1>4 DEF Promoted
<1>5. ASSUME NEW n \in Node, RecoverSegment(n) PROVE UnpromotedAlone'
    BY <1>5 DEF RecoverSegment, Stopped
<1>6. CASE UNCHANGED <<cfg, acting>>
    BY <1>6
<1> QED
    BY <1>1, <1>2, <1>3, <1>4, <1>5, <1>6 DEF Next, FtsStep, Handle, Replicate, vars,
       ftsVars, segVars, walVars, histVars, StartCycle, ConnectFails, ftsSend, Handler,
       ftsReceive, ConnectionLost, retryForFtsFailed, RetryWaited, ResendPromote, Ready,
       Ask, LeavePrimary, Processed, LogOutcome, ftsCheckTimeout, Fault, FtsRestarts,
       HandleProbe, Answer, HandleProbeOfMirror, HandleSyncRepOff, HandlePromote,
       ReleaseWaiters, WalSndCaughtUp, MirrorFlushes, UpdateSyncStandbysDefined,
       GraceEnds, StartReplay, CommitRecord, WalSndConnects, WalSndBreaks, Crash, Stopped, Restart

\* Answers hold until they are used.
LEMMA AnswerStep == FtsType /\ SegType /\ RoleInv /\ [Next]_vars => AnswerHolds'
<1> SUFFICES ASSUME FtsType, SegType, RoleInv, [Next]_vars PROVE AnswerHolds'
    OBVIOUS
<1> USE DEF FtsType, SegType, RoleInv, AnswerHolds, UnpromotedAlone, RequestsCurrent
<1>1. CASE retryForFtsFailed
    BY <1>1 DEF retryForFtsFailed, RetryDue, Nothing, ftsVars
<1>2. CASE MirrorGone
    BY <1>2 DEF MirrorGone, Ready, RetryDue, updateConfiguration, Ask, Processed,
       Nothing, ftsVars
<1>3. CASE ResendPromote
    BY <1>3 DEF ResendPromote, Ready, RetryDue, Ask, Nothing, ftsVars
<1>4. CASE RecordStatus
    BY <1>4 DEF RecordStatus, Ready, RetryDue, updateConfiguration, Processed, Nothing,
       ftsVars
<1>5. CASE FailOver
    BY <1>5 DEF FailOver, Ready, RetryDue, updateConfiguration, Ask, Nothing, ftsVars
<1>6. CASE LeavePrimary
    BY <1>6 DEF LeavePrimary, Ready, RetryDue, Processed, Nothing, ftsVars
<1>7. CASE LogOutcome
    BY <1>7 DEF LogOutcome, Ready, RetryDue, Processed, Nothing, ftsVars
<1>8. CASE ftsCheckTimeout
    BY <1>8 DEF ftsCheckTimeout, Fault, Handler, Nothing, ftsVars
<1>9. CASE FtsRestarts
    BY <1>9 DEF FtsRestarts, Fault, Processed, Handler, Nothing, ftsVars
<1>10. ASSUME NEW h \in handlers, HandleProbe(h) PROVE AnswerHolds'
  <2>1. PICK ready \in BOOLEAN :
          Answer(h, [mirrorUp |-> walsnd[h.node] # "none", inSync |-> walsnd[h.node] = "streaming",
                     syncRep |-> sync[h.node] \/ ready, roleMirror |-> FALSE,
                     requestRetry |-> ~ (walsnd[h.node] # "none") /\ grace[h.node]])
      BY <1>10 DEF HandleProbe
  <2>2. cfg' = cfg /\ acting' = acting
      BY <2>1 DEF Answer
  <2>3. CASE h.live
    <3>1. /\ result'.inSync = (walsnd[h.node] = "streaming")
          /\ result'.mirrorUp = (walsnd[h.node] # "none")
          /\ result'.roleMirror = FALSE
        BY <2>1, <2>3 DEF Answer
    <3>2. acting[cfg.primary] = "primary"
        BY <2>3, <1>10 DEF HandleProbe
    <3> QED
        BY <2>2, <3>1, <3>2
  <2>4. CASE ~ h.live
      BY <2>1, <2>2, <2>4 DEF Answer
  <2> QED
      BY <2>3, <2>4
<1>11. ASSUME NEW h \in handlers, HandleProbeOfMirror(h) PROVE AnswerHolds'
    BY <1>11 DEF HandleProbeOfMirror, Answer, Nothing, ftsVars
<1>12. ASSUME NEW h \in handlers, HandleSyncRepOff(h) PROVE AnswerHolds'
    BY <1>12 DEF HandleSyncRepOff, Answer, UnsetSyncStandbysDefined, Nothing, ftsVars
<1>13. ASSUME NEW h \in handlers, HandlePromote(h) PROVE AnswerHolds'
    BY <1>13 DEF HandlePromote, Answer, UnsetSyncStandbysDefined, Nothing, ftsVars
<1>14. ASSUME NEW n \in Node, Promoted(n) PROVE AnswerHolds'
    BY <1>14 DEF Promoted, Nothing, ftsVars
<1>15. ASSUME NEW n \in Node, RecoverSegment(n) PROVE AnswerHolds'
    BY <1>15 DEF RecoverSegment, Stopped, Nothing, ftsVars
<1>16. CASE UNCHANGED <<cfg, result, acting>>
    BY <1>16 DEF Nothing, ftsVars
<1> QED
    BY <1>1, <1>2, <1>3, <1>4, <1>5, <1>6, <1>7, <1>8, <1>9, <1>10, <1>11, <1>12, <1>13,
       <1>14, <1>15, <1>16 DEF Next, FtsStep, Handle, Replicate, vars, ftsVars, segVars,
       walVars, histVars, StartCycle, ConnectFails, ftsSend, Handler, ftsReceive,
       ConnectionLost, RetryWaited, ReleaseWaiters, WalSndCaughtUp, MirrorFlushes,
       UpdateSyncStandbysDefined, GraceEnds, StartReplay, CommitRecord, WalSndConnects, WalSndBreaks,
       Fault, Crash, Stopped, Restart

\* FTS records that the pair is not in sync before it asks for more than a probe.
LEMMA AskedStep == FtsType /\ RoleInv /\ [Next]_vars => AskedAlone'
<1> SUFFICES ASSUME FtsType, RoleInv, [Next]_vars PROVE AskedAlone'
    OBVIOUS
<1> USE DEF FtsType, RoleInv, AnswerHolds, AskedAlone
<1>1. CASE MirrorGone
  <2>1. CASE result.requestRetry
      BY <2>1, <1>1 DEF MirrorGone, Processed
  <2>2. CASE ~ result.requestRetry
      BY <2>2, <1>1, MarkedDown DEF MirrorGone, updateConfiguration
  <2> QED
      BY <2>1, <2>2
<1>2. CASE RecordStatus \/ LeavePrimary \/ LogOutcome \/ FtsRestarts
    BY <1>2 DEF RecordStatus, LeavePrimary, LogOutcome, FtsRestarts, Processed
<1>3. CASE FailOver
    BY <1>3 DEF FailOver, updateConfiguration
<1>4. CASE ResendPromote
    BY <1>4 DEF ResendPromote
<1>5. CASE UNCHANGED <<cfg, msg>>
    BY <1>5
<1> QED
    BY <1>1, <1>2, <1>3, <1>4, <1>5 DEF Next, FtsStep, Handle, Replicate, vars,
       ftsVars, StartCycle, ConnectFails, ftsSend,
       ftsReceive, ConnectionLost, retryForFtsFailed, RetryWaited, ftsCheckTimeout,
       HandleProbe, Answer, HandleProbeOfMirror, HandleSyncRepOff, HandlePromote,
       ReleaseWaiters, WalSndCaughtUp, MirrorFlushes, UpdateSyncStandbysDefined,
       GraceEnds, StartReplay, Promoted, CommitRecord, WalSndConnects, WalSndBreaks, Crash,
       Restart, RecoverSegment

\* All of it together.
LEMMA RoleStep == TypeOK /\ RoleInv /\ [Next]_vars => RoleInv'
BY TypeParts, RequestsStep, UnpromotedStep, AnswerStep, AskedStep DEF RoleInv

-----------------------------------------------------------------------------
(* Commits and logs                                                        *)

\* The logs are empty at the start.
LEMMA LogInit == Init => LogInv
BY DEF Init, LogInv, WaitsLogged, NoLostCommit, MirrorHas, LateInv

\* A mirror that flushes a record keeps what it has, and no other log changes.
LEMMA FlushGrows ==
    ASSUME LogType, NEW n \in Node, MirrorFlushes(n)
    PROVE  \A m \in Node : Range(log[m]) \subseteq Range(log'[m])
<1> DEFINE m == Peer(n)
           x == log[n][Len(log[m]) + 1]
<1>1. m \in Node /\ log[n] \in Seq(Commit) /\ log[m] \in Seq(Commit)
    BY PeerFact DEF LogType
<1>2. x \in Commit
    BY <1>1 DEF MirrorFlushes
<1>3. log' = [log EXCEPT ![m] = Append(log[m], x)]
    BY DEF MirrorFlushes
<1> HIDE DEF x, m
<1>4. Range(Append(log[m], x)) = Range(log[m]) \cup {x}
    BY <1>1, <1>2, RangeAppend
<1> QED
    BY <1>1, <1>3, <1>4 DEF LogType

\* A commit is in the log of its segment; no other log changes.
LEMMA CommitGrows ==
    ASSUME LogType, NEW n \in Node, CommitRecord(n)
    PROVE  /\ Range(log'[n]) = Range(log[n]) \cup {nextCommit}
           /\ \A m \in Node \ {n} : log'[m] = log[m]
<1>1. log[n] \in Seq(Commit) /\ nextCommit \in Commit
    BY DEF LogType, CommitRecord
<1>2. log' = [log EXCEPT ![n] = Append(log[n], nextCommit)]
    BY DEF CommitRecord
<1> QED
    BY <1>1, <1>2, RangeAppend DEF LogType

\* A segment flushes before it waits.
LEMMA WaitsStep == FtsType /\ LogType /\ WaitsLogged /\ [Next]_vars => WaitsLogged'
<1> SUFFICES ASSUME FtsType, LogType, WaitsLogged, [Next]_vars PROVE WaitsLogged'
    OBVIOUS
<1> USE DEF FtsType, LogType, WaitsLogged
<1>1. ASSUME NEW n \in Node, ReleaseWaiters(n) PROVE WaitsLogged'
    BY <1>1 DEF ReleaseWaiters, walVars
<1>2. ASSUME NEW n \in Node, MirrorFlushes(n) PROVE WaitsLogged'
  <2>1. \A m \in Node : Range(log[m]) \subseteq Range(log'[m])
      BY <1>2, FlushGrows
  <2> QED
      BY <2>1, <1>2 DEF MirrorFlushes, segVars
<1>3. ASSUME NEW n \in Node, UpdateSyncStandbysDefined(n) PROVE WaitsLogged'
    BY <1>3 DEF UpdateSyncStandbysDefined, AckAlone, walVars
<1>4. ASSUME NEW n \in Node, CommitRecord(n) PROVE WaitsLogged'
  <2>1. /\ Range(log'[n]) = Range(log[n]) \cup {nextCommit}
        /\ \A m \in Node \ {n} : log'[m] = log[m]
      BY <1>4, CommitGrows
  <2>2. \/ waits' = [waits EXCEPT ![n] = waits[n] \cup {nextCommit}]
        \/ waits' = waits
      BY <1>4 DEF CommitRecord
  <2> QED
      BY <2>1, <2>2
<1>5. ASSUME NEW n \in Node, Crash(n) PROVE WaitsLogged'
    BY <1>5 DEF Crash, Fault, Stopped, walVars
<1>6. ASSUME NEW n \in Node, RecoverSegment(n) PROVE WaitsLogged'
    BY <1>6 DEF RecoverSegment, Stopped, walVars
<1>7. CASE UNCHANGED <<log, waits>>
    BY <1>7 DEF walVars
<1> QED
    BY <1>1, <1>2, <1>3, <1>4, <1>5, <1>6, <1>7 DEF Next, FtsStep, Handle, Replicate,
       vars, ftsVars, segVars, walVars, histVars, StartCycle, ConnectFails, ftsSend,
       Handler, ftsReceive, ConnectionLost, retryForFtsFailed, RetryWaited, MirrorGone,
       Ready, updateConfiguration, Ask, Processed, ResendPromote, RecordStatus,
       FailOver, LeavePrimary, LogOutcome, ftsCheckTimeout, Fault, FtsRestarts,
       HandleProbe, Answer, HandleProbeOfMirror, HandleSyncRepOff, HandlePromote,
       WalSndCaughtUp, GraceEnds, StartReplay, Promoted, WalSndConnects, WalSndBreaks, Restart

\* A commit that the mirror's promotion would lose is acknowledged alone only for
\* a reason that makes it exposed.
LEMMA AloneFact ==
    ASSUME LateInv, NEW n \in Node, NEW C, AckAlone(n, C)
    PROVE  /\ acked' = acked \cup C
           /\ exposed' = IF cfg.inSync \/ cfg.primary # n THEN exposed \cup C ELSE exposed
BY DEF AckAlone, LateInv

\* The file of a segment changes with a request in use only if the pair is not
\* in sync.
LEMMA LateStep == FtsType /\ SegType /\ LateType /\ RoleInv /\ LateInv /\ [Next]_vars => LateInv'
<1> SUFFICES ASSUME FtsType, SegType, LateType, RoleInv, LateInv, [Next]_vars PROVE LateInv'
    OBVIOUS
<1> USE DEF FtsType, SegType, LateType, LateInv
<1>0. cfg.primary \in Node /\ Peer(cfg.primary) \in Node
    BY ConfigType, PeerFact
<1>1. CASE MirrorGone
  <2>1. conf' = conf
      BY <1>1 DEF MirrorGone, Ready, segVars
  <2>2. CASE result.requestRetry
      BY <2>1, <2>2, <1>1 DEF MirrorGone
  <2>3. CASE ~ result.requestRetry
      BY <2>1, <2>3, <1>1, MarkedDown DEF MirrorGone, updateConfiguration
  <2> QED
      BY <2>2, <2>3
<1>2. CASE RecordStatus
  <2>1. conf' = conf /\ cfg'.primary = cfg.primary
      BY <1>2, StatusRecorded DEF RecordStatus, Ready, segVars
  <2>2. CASE cfg'.inSync /\ ~ cfg.inSync
    <3>1. late' = [late EXCEPT ![cfg.primary] = ~ conf[cfg.primary]]
        BY <2>1, <2>2, <1>2 DEF RecordStatus, updateConfiguration
    <3> QED
        BY <1>0, <2>1, <3>1
  <2>3. CASE ~ (cfg'.inSync /\ ~ cfg.inSync)
    <3>1. late' = late
        BY <2>3, <1>2 DEF RecordStatus, updateConfiguration
    <3> QED
        BY <2>1, <2>3, <3>1
  <2> QED
      BY <2>2, <2>3
<1>3. CASE FailOver
  <2>1. conf' = conf /\ late' = late /\ cfg.inSync
      BY <1>3 DEF FailOver, Ready, segVars, updateConfiguration
  <2> QED
      BY <2>1
<1>4. ASSUME NEW h \in handlers, UnsetSyncStandbysDefined(h), cfg' = cfg, h.msg # "PROBE" PROVE LateInv'
  <2>1. h.node \in Node
      BY HandlerType
  <2>2. h.live => h.node = cfg.primary /\ ~ cfg.inSync
      BY <1>4 DEF RoleInv, RequestsCurrent, AskedAlone
  <2>3. \A n \in Node \ {h.node} : conf'[n] = conf[n] /\ late'[n] = late[n]
      BY <2>1, <1>4 DEF UnsetSyncStandbysDefined
  <2>4. CASE sync[h.node] /\ conf[h.node]
    <3>1. late'[h.node] = ~ h.live
        BY <2>1, <2>4, <1>4 DEF UnsetSyncStandbysDefined
    <3> QED
        BY <2>2, <2>3, <3>1, <1>4
  <2>5. CASE ~ (sync[h.node] /\ conf[h.node])
    <3>1. late'[h.node] = late[h.node] /\ conf'[h.node] = conf[h.node]
        BY <2>1, <2>5, <1>4 DEF UnsetSyncStandbysDefined
    <3> QED
        BY <2>3, <3>1, <1>4
  <2> QED
      BY <2>4, <2>5
<1>5. CASE UNCHANGED <<cfg, conf, late>>
    BY <1>5
<1>6. ASSUME NEW h \in handlers, Handle(h) PROVE LateInv'
  <2>1. h.node \in Node /\ cfg' = cfg
      BY <1>6, HandlerType DEF Handle, HandleProbe, HandleProbeOfMirror, HandleSyncRepOff,
         HandlePromote, Answer
  <2>2. CASE HandleProbe(h)
    <3>1. PICK ready \in BOOLEAN : SetSyncStandbysDefined(h.node, ready)
        BY <2>2 DEF HandleProbe
    <3>2. \A n \in Node : ~ conf'[n] => ~ conf[n] /\ late'[n] = late[n]
        BY <2>1, <3>1 DEF SetSyncStandbysDefined
    <3> QED
        BY <2>1, <3>2
  <2>3. CASE HandleProbeOfMirror(h)
      BY <2>1, <2>3, <1>5 DEF HandleProbeOfMirror
  <2>4. CASE HandleSyncRepOff(h)
      BY <2>1, <2>4, <1>4 DEF HandleSyncRepOff
  <2>5. CASE HandlePromote(h)
      BY <2>1, <2>5, <1>4, <1>5 DEF HandlePromote
  <2> QED
      BY <1>6, <2>2, <2>3, <2>4, <2>5 DEF Handle
<1>7. ASSUME NEW n \in Node, RecoverSegment(n) PROVE LateInv'
  <2>1. /\ conf' = [conf EXCEPT ![n] = conf[cfg.primary]]
        /\ late' = [late EXCEPT ![n] = ~ conf[cfg.primary]]
        /\ cfg' = cfg
      BY <1>7 DEF RecoverSegment
  <2> QED
      BY <1>0, <2>1
<1> QED
    BY <1>1, <1>2, <1>3, <1>5, <1>6, <1>7 DEF Next, FtsStep, Replicate, vars, ftsVars, segVars,
       histVars, StartCycle, ConnectFails, ftsSend, ftsReceive, ConnectionLost, retryForFtsFailed,
       RetryWaited, ResendPromote, Ready, LeavePrimary, LogOutcome, ftsCheckTimeout, FtsRestarts,
       ReleaseWaiters, WalSndCaughtUp, MirrorFlushes, UpdateSyncStandbysDefined, AckAlone,
       GraceEnds, StartReplay, Promoted, CommitRecord, WalSndConnects, WalSndBreaks, Crash, Restart

\* The primary keeps what was acknowledged; so does a mirror in sync.
LEMMA CommitsStep == FtsType /\ SegType /\ LogType /\ LogInv /\ [Next]_vars => (NoLostCommit /\ MirrorHas)'
<1> SUFFICES ASSUME FtsType, SegType, LogType, LogInv, [Next]_vars PROVE (NoLostCommit /\ MirrorHas)'
    OBVIOUS
<1> USE DEF FtsType, SegType, LogType, LogInv, WaitsLogged, NoLostCommit, MirrorHas
<1>1. CASE MirrorGone
  <2>1. log' = log /\ acked' = acked
      BY <1>1 DEF MirrorGone, Ready, walVars
  <2>2. CASE result.requestRetry
      BY <2>1, <2>2, <1>1 DEF MirrorGone
  <2>3. CASE ~ result.requestRetry
      BY <2>1, <2>3, <1>1, MarkedDown DEF MirrorGone, updateConfiguration
  <2> QED
      BY <2>2, <2>3
<1>2. CASE RecordStatus
  <2>1. log' = log /\ acked' = acked
      BY <1>2 DEF RecordStatus, Ready, walVars
  <2>2. cfg'.primary = cfg.primary
      BY <1>2, StatusRecorded
  <2>3. exposed' = IF cfg'.inSync /\ ~ cfg.inSync
                   THEN exposed \cup (acked \ Range(log[Peer(cfg'.primary)]))
                   ELSE exposed
      BY <1>2 DEF RecordStatus, updateConfiguration
  <2> QED
      BY <2>1, <2>2, <2>3
<1>3. CASE FailOver
    BY PeerFact, ConfigType, <1>3 DEF FailOver, Ready, RetryDue, updateConfiguration,
       Ask, walVars, histVars
<1>4. ASSUME NEW n \in Node, ReleaseWaiters(n) PROVE (NoLostCommit /\ MirrorHas)'
  <2>1. cfg.primary \in Node
      BY ConfigType
  <2>2. n = cfg.primary \/ (n = Peer(cfg.primary) /\ cfg.primary = Peer(n))
      BY <2>1, PairFact
  <2>3. waits[n] \cap Range(log[Peer(n)]) \subseteq Range(log[n]) \cap Range(log[Peer(n)])
      OBVIOUS
  <2> QED
      BY <2>2, <2>3, <1>4 DEF ReleaseWaiters, walVars
<1>5. ASSUME NEW n \in Node, MirrorFlushes(n) PROVE (NoLostCommit /\ MirrorHas)'
  <2>1. cfg.primary \in Node /\ Peer(cfg.primary) \in Node
      BY ConfigType, PeerFact
  <2>2. Range(log[cfg.primary]) \subseteq Range(log'[cfg.primary])
      BY <2>1, <1>5, FlushGrows
  <2>3. Range(log[Peer(cfg.primary)]) \subseteq Range(log'[Peer(cfg.primary)])
      BY <2>1, <1>5, FlushGrows
  <2> QED
      BY <2>2, <2>3, <1>5 DEF MirrorFlushes, histVars
<1>6. ASSUME NEW n \in Node, UpdateSyncStandbysDefined(n) PROVE (NoLostCommit /\ MirrorHas)'
  <2>1. AckAlone(n, waits[n]) /\ cfg' = cfg /\ log' = log
      BY <1>6 DEF UpdateSyncStandbysDefined, walVars
  <2>2. /\ acked' = acked \cup waits[n]
        /\ exposed' = IF cfg.inSync \/ cfg.primary # n THEN exposed \cup waits[n] ELSE exposed
      BY <2>1, AloneFact
  <2> QED
      BY <2>1, <2>2
<1>7. ASSUME NEW n \in Node, CommitRecord(n) PROVE (NoLostCommit /\ MirrorHas)'
  <2> DEFINE p == cfg.primary
  <2>0. p \in Node
      BY ConfigType
  <2>1. p \in Node /\ Peer(p) \in Node /\ (n = p \/ n = Peer(p))
      BY <2>0, PeerFact, PairFact
  <2>2. /\ Range(log[p]) \subseteq Range(log'[p])
        /\ Range(log[Peer(p)]) \subseteq Range(log'[Peer(p)])
        /\ nextCommit \in Range(log'[n])
      BY <2>1, <1>7, CommitGrows
  <2>3. cfg' = cfg
      BY <1>7 DEF CommitRecord
  <2>4. CASE sync[n]
      BY <2>2, <2>3, <2>4, <1>7 DEF CommitRecord, histVars
  <2>5. CASE ~ sync[n]
    <3>1. /\ acked' = acked \cup {nextCommit}
          /\ exposed' = IF cfg.inSync \/ cfg.primary # n THEN exposed \cup {nextCommit} ELSE exposed
        BY <2>5, <1>7, AloneFact DEF CommitRecord
    <3> QED
        BY <2>1, <2>2, <2>3, <3>1
  <2> QED
      BY <2>4, <2>5
<1>8. ASSUME NEW n \in Node, RecoverSegment(n) PROVE (NoLostCommit /\ MirrorHas)'
    BY PeerFact, ConfigType, <1>8 DEF RecoverSegment, Stopped, walVars, histVars
<1>9. CASE UNCHANGED <<log, acked, exposed, cfg>>
    BY <1>9 DEF walVars, histVars
<1> QED
    BY <1>1, <1>2, <1>3, <1>4, <1>5, <1>6, <1>7, <1>8, <1>9 DEF Next, FtsStep, Handle,
       Replicate, vars, ftsVars, segVars, walVars, histVars, StartCycle, ConnectFails,
       ftsSend, Handler, ftsReceive, ConnectionLost, retryForFtsFailed, RetryWaited,
       ResendPromote, Ready, Ask, LeavePrimary, Processed, LogOutcome, ftsCheckTimeout,
       Fault, FtsRestarts, HandleProbe, Answer, HandleProbeOfMirror, HandleSyncRepOff,
       HandlePromote, WalSndCaughtUp, GraceEnds, StartReplay, Promoted, WalSndConnects, WalSndBreaks,
       Crash, Stopped, Restart

\* Every step keeps what the logs promise.
LEMMA LogStep == TypeOK /\ RoleInv /\ LogInv /\ [Next]_vars => LogInv'
BY TypeParts, WaitsStep, CommitsStep, LateStep DEF LogInv

-----------------------------------------------------------------------------
(* The theorems                                                            *)

FtsInv == TypeOK /\ RoleInv /\ LogInv

\* The inductive invariant holds in every reachable state.
LEMMA Invariance == Spec => []FtsInv
<1>1. Init => FtsInv
    BY TypeInit, RoleInit, LogInit DEF FtsInv
<1>2. FtsInv /\ [Next]_vars => FtsInv'
    BY TypeStep, RoleStep, LogStep DEF FtsInv, RoleInv
<1> QED
    BY <1>1, <1>2, PTL DEF Spec

\* Every variable of FTS and of the pair keeps its type: among others a mirror is
\* recorded in sync only while it is recorded up.
THEOREM FtsTypeCorrect == Spec => []TypeOK
<1>1. FtsInv => TypeOK
    BY DEF FtsInv
<1> QED
    BY <1>1, Invariance, PTL

\* FTS loses no commit: whatever fails, and however often the roles change, the
\* primary of the configuration has every acknowledged commit, the exposed ones
\* excepted.  In particular no request that FTS waits for turns synchronous
\* replication off while the mirror may still take over.
THEOREM FtsNoLostCommit == Spec => []NoLostCommit
<1>1. FtsInv => NoLostCommit
    BY DEF FtsInv, LogInv
<1> QED
    BY <1>1, Invariance, PTL

\* The assertions of processResponse() hold: a primary that answers as a mirror
\* was made primary by FTS, its peer is down and the pair out of sync.
THEOREM FtsResendSound == Spec => []ResendSound
<1>1. FtsInv => ResendSound
    BY DEF FtsInv, RoleInv, AnswerHolds, ResendSound
<1> QED
    BY <1>1, Invariance, PTL
=============================================================================
