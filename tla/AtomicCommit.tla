---------------------------- MODULE AtomicCommit ----------------------------
(***************************************************************************)
(* What the distributed transaction manager promises: the segments that    *)
(* wrote for a transaction agree on its outcome, the outcome is commit     *)
(* only after all of them had prepared, once decided it is never taken     *)
(* back, and the answer the client gets agrees with it.                    *)
(*                                                                         *)
(* The one exception is the one-phase commit of a transaction with a       *)
(* single writer: that segment decides alone, and the client may get an    *)
(* error although it has committed.                                        *)
(***************************************************************************)
CONSTANTS Gxid, Segment

VARIABLES
    part,     \* part[g][s]: the part of transaction g on segment s
    decided,  \* transactions whose commit cannot be undone any more
    answer    \* what the client was told

acVars == <<part, decided, answer>>

ACInit ==
    /\ part = [g \in Gxid |-> [s \in Segment |-> "none"]]
    /\ decided = {}
    /\ answer = [g \in Gxid |-> "none"]

\* A segment writes for a transaction none of whose parts has prepared.
Work(g, s) ==
    /\ answer[g] = "none"
    /\ part[g][s] = "none"
    /\ \A t \in Segment : part[g][t] \in {"none", "working", "aborted"}
    /\ part' = [part EXCEPT ![g][s] = "working"]
    /\ UNCHANGED <<decided, answer>>

Prepare(g, s) ==
    /\ part[g][s] = "working"
    /\ part' = [part EXCEPT ![g][s] = "prepared"]
    /\ UNCHANGED <<decided, answer>>

\* One flush of the coordinator's log may decide several transactions.
Decide(G) ==
    /\ G # {}
    /\ \A g \in G : /\ g \notin decided
                    /\ answer[g] = "none"
                    /\ \A s \in Segment : part[g][s] \in {"none", "prepared"}
    /\ decided' = decided \cup G
    /\ UNCHANGED <<part, answer>>

Commit(g, s) ==
    /\ g \in decided
    /\ part[g][s] = "prepared"
    /\ part' = [part EXCEPT ![g][s] = "committed"]
    /\ UNCHANGED <<decided, answer>>

CommitOnePhase(g, s) ==
    /\ part[g][s] = "working"
    /\ \A t \in Segment \ {s} : part[g][t] = "none"
    /\ part' = [part EXCEPT ![g][s] = "committed"]
    /\ UNCHANGED <<decided, answer>>

\* The restart of a segment aborts all the open parts it holds at once.
Abort(P) ==
    /\ P # {}
    /\ \A p \in P : /\ p[1] \notin decided
                    /\ part[p[1]][p[2]] \in {"working", "prepared"}
    /\ part' = [g \in Gxid |-> [s \in Segment |->
                  IF <<g, s>> \in P THEN "aborted" ELSE part[g][s]]]
    /\ UNCHANGED <<decided, answer>>

AnswerCommit(g) ==
    /\ answer[g] = "none"
    /\ \A s \in Segment : part[g][s] \in {"none", "committed"}
    /\ answer' = [answer EXCEPT ![g] = "commit"]
    /\ UNCHANGED <<part, decided>>

AnswerAbort(g) ==
    /\ answer[g] = "none"
    /\ g \notin decided
    /\ answer' = [answer EXCEPT ![g] = "abort"]
    /\ UNCHANGED <<part, decided>>

ACNext ==
    \/ \E g \in Gxid, s \in Segment :
          Work(g, s) \/ Prepare(g, s) \/ Commit(g, s) \/ CommitOnePhase(g, s)
    \/ \E G \in SUBSET Gxid : Decide(G)
    \/ \E P \in SUBSET (Gxid \X Segment) : Abort(P)
    \/ \E g \in Gxid : AnswerCommit(g) \/ AnswerAbort(g)

ACSpec == ACInit /\ [][ACNext]_acVars
=============================================================================
