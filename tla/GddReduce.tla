------------------------------ MODULE GddReduce ------------------------------
(***************************************************************************)
(* The graph algorithm of the global deadlock detector, step by step: the  *)
(* rows of gp_dist_wait_status() are added to one local graph per segment, *)
(* the graphs are reduced one vertex of one segment at a time until        *)
(* nothing can be deleted, then broken by removing the youngest vertex and *)
(* reducing again.                                                         *)
(***************************************************************************)
EXTENDS GddGraph

CONSTANT MaxEdges   \* bound: rows gp_dist_wait_status() returns

VARIABLES
    building,   \* buildWaitGraph() is still adding rows
    graph,      \* the edges still linked
    victims     \* the list GddCtxBreakDeadLock() returns

reduceVars == <<building, graph, victims>>

ReduceTypeOK ==
    /\ building \in BOOLEAN
    /\ graph \subseteq Edge
    /\ victims \subseteq Int
-----------------------------------------------------------------------------
(* One row of gp_dist_wait_status() in buildWaitGraph(). *)
GddCtxAddEdge(e) ==
    /\ building
    /\ Cardinality(graph) < MaxEdges
    /\ graph' = graph \cup {e}
    /\ UNCHANGED <<building, victims>>

EndBuild ==
    /\ building
    /\ building' = FALSE
    /\ UNCHANGED <<graph, victims>>

(* One call of gddVertReduce() from GddCtxReduce().  The order of the       *)
(* visits is the order of two maps, which the rows decide: any order.       *)
gddVertReduce(s, v) ==
    /\ ~ building
    /\ Reducible(graph, s, v) # {}
    /\ graph' = graph \ Reducible(graph, s, v)
    /\ UNCHANGED <<building, victims>>

(* One turn of the loop of GddCtxBreakDeadLock(). *)
BreakCycle ==
    /\ ~ building
    /\ graph # {}
    /\ Irreducible(graph)
    /\ LET vid == gddCtxGetMaxVid(graph)
       IN /\ graph' = gddCtxRemoveVid(graph, vid)
          /\ victims' = victims \cup {vid}
    /\ UNCHANGED building

ReduceInit ==
    /\ building = TRUE
    /\ graph = {}
    /\ victims = {}

(* GddCtxReduce() and GddCtxBreakDeadLock() run to completion. *)
Detect ==
    \/ \E s \in Seg, v \in Vid : gddVertReduce(s, v)
    \/ BreakCycle

ReduceNext ==
    \/ \E e \in Edge : GddCtxAddEdge(e)
    \/ EndBuild
    \/ Detect

ReduceSpec == ReduceInit /\ [][ReduceNext]_reduceVars /\ WF_reduceVars(Detect)
-----------------------------------------------------------------------------
(* A reduction never drops an edge of a deadlock, whichever vertex of       *)
(* whichever segment is visited next, so the result does not depend on the  *)
(* order of the maps (gddVertReduce() in gdddetector.c).                    *)
ReduceKeepsCore ==
    [][(~ building /\ victims' = victims) => Core(graph') = Core(graph)]_reduceVars

(* When nothing can be deleted any more, every edge left belongs to a       *)
(* deadlock: GddCtxEmpty() is then the exact test doDeadLockCheck() needs.  *)
NoFalseEdge == ~ building /\ Irreducible(graph) => graph = Core(graph)

(* A victim is a transaction that cannot move, whatever the earlier victims *)
(* of the same round free.                                                  *)
VictimDeadlocked ==
    [][victims' \ victims \subseteq Deadlocked(graph)]_reduceVars

(* The test for emptiness misses no deadlock: a reduction never takes the   *)
(* last deadlocked transaction out of the graph, although it takes out the  *)
(* ones that nobody waits for.                                              *)
NothingMissed ==
    [][(~ building /\ victims' = victims) =>
          (Deadlocked(graph) # {} => graph' # {} /\ Deadlocked(graph') # {})]_reduceVars

(* GddCtxBreakDeadLock() ends, with a graph that has no deadlock. *)
Broken == ~ building ~> graph = {}
=============================================================================
