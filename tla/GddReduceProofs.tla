-------------------------- MODULE GddReduceProofs --------------------------
(***************************************************************************)
(* Proofs about the graph algorithm of the global deadlock detector, for   *)
(* every number of segments, transactions and waits: a reduction drops no  *)
(* edge of a deadlock, what it leaves at the end is nothing else, and the  *)
(* vertex it then takes for a victim is deadlocked.                        *)
(***************************************************************************)
EXTENDS GddReduce, TLAPS, WellFoundedInduction

(* A larger graph has larger degrees. *)
LEMMA DegreesGrow ==
    ASSUME NEW E, NEW g, E \subseteq g, NEW s, NEW v
    PROVE  /\ HasIn(E, v) => HasIn(g, v)
           /\ HasOut(E, v) => HasOut(g, v)
           /\ HasLocalOut(E, s, v) => HasLocalOut(g, s, v)
           /\ HasLocalOut(E, s, v) => HasOut(E, v)
BY DEF HasIn, HasOut, HasLocalOut

(* The edges gddVertReduce() unlinks belong to no closed deadlock: one of   *)
(* the degrees the code tests is zero, and in a deadlock none of them is.   *)
LEMMA ClosedIrreducible ==
    ASSUME NEW g, NEW E \in SUBSET g, Closed(E), NEW s, NEW v, NEW f \in E
    PROVE  f \notin Reducible(g, s, v)
<1> SUFFICES ASSUME f \in Reducible(g, s, v) PROVE FALSE
  OBVIOUS
<1>1. E \subseteq g /\ f \in g /\ Segment(f) = s
  BY DEF Reducible
<1>2. HasIn(E, From(f))
  BY DEF Closed
<1>3. IF Solid(f) THEN HasOut(E, To(f)) ELSE HasLocalOut(E, Segment(f), To(f))
  BY DEF Closed, Persists
<1>4. HasOut(E, To(f))
  BY <1>1, <1>3, DegreesGrow
<1>5. HasOut(g, From(f)) /\ HasIn(g, To(f))
  BY <1>1 DEF HasOut, HasIn
<1>6. HasIn(g, From(f)) /\ HasOut(g, To(f))
  BY <1>1, <1>2, <1>4, DegreesGrow
<1>7. CASE (~ HasIn(g, v) \/ ~ HasOut(g, v)) /\ v \in {From(f), To(f)}
  BY <1>5, <1>6, <1>7
<1>8. CASE ~ HasLocalOut(g, s, v) /\ To(f) = v /\ ~ Solid(f)
  BY <1>1, <1>3, <1>8, DegreesGrow
<1> QED BY <1>7, <1>8 DEF Reducible

(* Visiting a vertex leaves the deadlocks of the graph as they are. *)
LEMMA VisitKeepsCore ==
    ASSUME NEW g, NEW s, NEW v
    PROVE  Core(g \ Reducible(g, s, v)) = Core(g)
<1> DEFINE h == g \ Reducible(g, s, v)
<1>1. ASSUME NEW e \in Core(h) PROVE e \in Core(g)
  <2>1. PICK E \in SUBSET h : Closed(E) /\ e \in E
    BY <1>1 DEF Core
  <2>2. E \in SUBSET g /\ e \in g
    BY <2>1
  <2> QED BY <2>1, <2>2 DEF Core
<1>2. ASSUME NEW e \in Core(g) PROVE e \in Core(h)
  <2>1. PICK E \in SUBSET g : Closed(E) /\ e \in E
    BY <1>2 DEF Core
  <2>2. \A f \in E : f \in h
    BY <2>1, ClosedIrreducible
  <2>3. E \in SUBSET h /\ e \in h
    BY <2>1, <2>2
  <2> HIDE DEF h
  <2> QED BY <2>1, <2>3 DEF Core
<1> QED BY <1>1, <1>2

(* Visiting a vertex leaves a part of every set of waits that persists: the *)
(* code may drop a waiter nobody waits for, never the one it waits for.     *)
LEMMA VisitKeepsWait ==
    ASSUME NEW g \in SUBSET Edge, NEW E \in SUBSET g, Persists(E), E # {}, NEW s, NEW v
    PROVE  Persists(E \ Reducible(g, s, v)) /\ E \ Reducible(g, s, v) # {}
<1> DEFINE kept == E \ Reducible(g, s, v)
<1>1. ASSUME NEW e \in E PROVE HasOut(E, To(e))
  <2>1. IF Solid(e) THEN HasOut(E, To(e)) ELSE HasLocalOut(E, Segment(e), To(e))
    BY DEF Persists
  <2> QED BY <2>1, DegreesGrow
<1>2. ASSUME NEW e \in E, e \in Reducible(g, s, v)
      PROVE  ~ HasIn(g, v) /\ From(e) = v
  <2>1. E \subseteq g /\ Segment(e) = s
    BY <1>2 DEF Reducible
  <2>2. HasOut(g, To(e)) /\ HasIn(g, To(e)) /\ HasOut(g, From(e))
    BY <1>1, <2>1, DegreesGrow DEF HasIn, HasOut
  <2>3. ~ Solid(e) => HasLocalOut(g, s, To(e))
    BY <2>1, DegreesGrow DEF Persists
  <2> QED BY <1>2, <2>2, <2>3 DEF Reducible
<1>3. ASSUME NEW e \in E, NEW f \in E, To(e) = From(f)
      PROVE  f \in kept
  <2>1. HasIn(g, To(e))
    BY DEF HasIn
  <2> QED BY <1>2, <1>3, <2>1
<1>4. Persists(kept)
  <2> SUFFICES ASSUME NEW e \in kept
               PROVE  IF Solid(e) THEN HasOut(kept, To(e)) ELSE HasLocalOut(kept, Segment(e), To(e))
    BY DEF Persists
  <2>1. e \in E
    OBVIOUS
  <2>2. IF Solid(e) THEN HasOut(E, To(e)) ELSE HasLocalOut(E, Segment(e), To(e))
    BY <2>1 DEF Persists
  <2> HIDE DEF kept
  <2> QED BY <1>3, <2>1, <2>2 DEF HasOut, HasLocalOut
<1>5. kept # {}
  <2>1. PICK e \in E : TRUE
    OBVIOUS
  <2>2. PICK f \in E : From(f) = To(e)
    BY <1>1 DEF HasOut
  <2> QED BY <1>3, <2>2
<1> QED BY <1>4, <1>5

\* One visit of the reduction keeps what is deadlocked.
LEMMA VisitKeepsDeadlock ==
    ASSUME NEW g \in SUBSET Edge, NEW s, NEW v, Deadlocked(g) # {}
    PROVE  g \ Reducible(g, s, v) # {} /\ Deadlocked(g \ Reducible(g, s, v)) # {}
<1>1. PICK w \in Vid, E \in SUBSET g : Persists(E) /\ HasOut(E, w)
  BY DEF Deadlocked
<1>2. E # {}
  BY <1>1 DEF HasOut
<1> DEFINE kept == E \ Reducible(g, s, v)
           rest == g \ Reducible(g, s, v)
<1>3. Persists(kept) /\ kept # {}
  BY <1>1, <1>2, VisitKeepsWait
<1>4. PICK f \in kept : TRUE
  BY <1>3
<1>5. From(f) \in Vid
  BY DEF Edge, From
<1>6. kept \in SUBSET rest /\ rest # {}
  BY <1>4
<1> HIDE DEF kept, rest
<1>7. HasOut(kept, From(f))
  BY DEF HasOut
<1>8. From(f) \in Deadlocked(rest)
  BY <1>3, <1>5, <1>6, <1>7 DEF Deadlocked
<1> QED BY <1>6, <1>8 DEF rest

(* A graph in which nothing can be deleted is one deadlock as a whole. *)
LEMMA IrreducibleIsCore ==
    ASSUME NEW g \in SUBSET Edge, Irreducible(g)
    PROVE  g = Core(g)
<1>1. ASSUME NEW e \in g
      PROVE  /\ HasIn(g, From(e))
             /\ IF Solid(e) THEN HasOut(g, To(e)) ELSE HasLocalOut(g, Segment(e), To(e))
  <2>1. Segment(e) \in Seg /\ From(e) \in Vid /\ To(e) \in Vid
    BY DEF Edge, Segment, From, To
  <2>2. e \notin Reducible(g, Segment(e), From(e)) /\ e \notin Reducible(g, Segment(e), To(e))
    BY <2>1 DEF Irreducible
  <2>3. HasIn(g, From(e)) /\ HasOut(g, To(e))
    BY <2>2 DEF Reducible
  <2>4. Solid(e) \/ HasLocalOut(g, Segment(e), To(e))
    BY <2>2 DEF Reducible
  <2> QED BY <2>3, <2>4
<1>2. Closed(g)
  BY <1>1 DEF Closed, Persists
<1> QED BY <1>2 DEF Core

-----------------------------------------------------------------------------
(* Only edges are linked, and no edge of a victim is. *)
VictimsGone ==
    /\ graph \subseteq Edge
    /\ building => victims = {}
    /\ \A e \in graph : From(e) \notin victims /\ To(e) \notin victims

\* No victim has been picked yet.
LEMMA VictimsGoneInit == ReduceInit => VictimsGone
BY DEF ReduceInit, VictimsGone

\* A picked victim has no edge after any step.
LEMMA VictimsGoneStep == VictimsGone /\ [ReduceNext]_reduceVars => VictimsGone'
<1> SUFFICES ASSUME VictimsGone, [ReduceNext]_reduceVars PROVE VictimsGone'
  OBVIOUS
<1> USE DEF VictimsGone
<1>1. ASSUME NEW e \in Edge, GddCtxAddEdge(e) PROVE VictimsGone'
  BY <1>1 DEF GddCtxAddEdge
<1>2. CASE EndBuild
  BY <1>2 DEF EndBuild
<1>3. ASSUME NEW s \in Seg, NEW v \in Vid, gddVertReduce(s, v) PROVE VictimsGone'
  BY <1>3 DEF gddVertReduce
<1>4. CASE BreakCycle
  <2> DEFINE vid == gddCtxGetMaxVid(graph)
  <2>1. /\ ~ building /\ building' = building
        /\ graph' = {e \in graph : vid \notin {From(e), To(e)}}
        /\ victims' = victims \cup {vid}
    BY <1>4 DEF BreakCycle, gddCtxRemoveVid
  <2> HIDE DEF vid
  <2> QED BY <2>1
<1>5. CASE UNCHANGED reduceVars
  BY <1>5 DEF reduceVars
<1> QED BY <1>1, <1>2, <1>3, <1>4, <1>5 DEF ReduceNext, Detect

\* The edges of a victim never come back.
LEMMA VictimsStayGone == ReduceSpec => []VictimsGone
<1>1. ReduceInit => VictimsGone
  BY VictimsGoneInit
<1>2. VictimsGone /\ [ReduceNext]_reduceVars => VictimsGone'
  BY VictimsGoneStep
<1> QED BY <1>1, <1>2, PTL DEF ReduceSpec

-----------------------------------------------------------------------------
(* In whatever order gddVertReduce() visits the vertices of whatever graph, *)
(* no edge of a deadlock is dropped; a turn of GddCtxBreakDeadLock() that   *)
(* names no new victim drops nothing at all.                                *)
THEOREM ReductionKeepsDeadlocks == ReduceSpec => ReduceKeepsCore
<1> DEFINE Keeps == (~ building /\ victims' = victims) => Core(graph') = Core(graph)
<1>1. VictimsGone /\ [ReduceNext]_reduceVars => [Keeps]_reduceVars
  <2> SUFFICES ASSUME VictimsGone, ReduceNext, ~ building, victims' = victims
               PROVE  Core(graph') = Core(graph)
    OBVIOUS
  <2>1. ASSUME NEW s \in Seg, NEW v \in Vid, gddVertReduce(s, v)
        PROVE  Core(graph') = Core(graph)
    BY <2>1, VisitKeepsCore DEF gddVertReduce
  <2>2. CASE BreakCycle
    <3> DEFINE vid == gddCtxGetMaxVid(graph)
    <3>1. /\ graph' = {e \in graph : vid \notin {From(e), To(e)}}
          /\ victims' = victims \cup {vid}
      BY <2>2 DEF BreakCycle, gddCtxRemoveVid
    <3> HIDE DEF vid
    <3>2. graph' = graph
      BY <3>1 DEF VictimsGone
    <3> QED BY <3>2
  <2>3. ASSUME NEW e \in Edge, GddCtxAddEdge(e) PROVE FALSE
    BY <2>3 DEF GddCtxAddEdge
  <2>4. CASE EndBuild
    BY <2>4 DEF EndBuild
  <2> QED BY <2>1, <2>2, <2>3, <2>4 DEF ReduceNext, Detect
<1> QED BY <1>1, VictimsStayGone, PTL DEF ReduceSpec, ReduceKeepsCore

(* The reduction misses no deadlock: as long as somebody in the graph can   *)
(* never move, something is left of the graph, with somebody in it who can  *)
(* never move, so that doDeadLockCheck() does not go to sleep on it.        *)
THEOREM ReductionMissesNothing == ReduceSpec => NothingMissed
<1> DEFINE Kept == (~ building /\ victims' = victims) =>
                      (Deadlocked(graph) # {} => graph' # {} /\ Deadlocked(graph') # {})
<1>1. VictimsGone /\ [ReduceNext]_reduceVars => [Kept]_reduceVars
  <2> SUFFICES ASSUME VictimsGone, ReduceNext, ~ building, victims' = victims,
                      Deadlocked(graph) # {}
               PROVE  graph' # {} /\ Deadlocked(graph') # {}
    OBVIOUS
  <2>1. ASSUME NEW s \in Seg, NEW v \in Vid, gddVertReduce(s, v)
        PROVE  graph' # {} /\ Deadlocked(graph') # {}
    BY <2>1, VisitKeepsDeadlock DEF gddVertReduce, VictimsGone
  <2>2. CASE BreakCycle
    <3> DEFINE vid == gddCtxGetMaxVid(graph)
    <3>1. /\ graph' = {e \in graph : vid \notin {From(e), To(e)}}
          /\ victims' = victims \cup {vid} /\ graph # {}
      BY <2>2 DEF BreakCycle, gddCtxRemoveVid
    <3> HIDE DEF vid
    <3>2. graph' = graph
      BY <3>1 DEF VictimsGone
    <3> QED BY <3>1, <3>2
  <2>3. ASSUME NEW e \in Edge, GddCtxAddEdge(e) PROVE FALSE
    BY <2>3 DEF GddCtxAddEdge
  <2>4. CASE EndBuild
    BY <2>4 DEF EndBuild
  <2> QED BY <2>1, <2>2, <2>3, <2>4 DEF ReduceNext, Detect
<1> QED BY <1>1, VictimsStayGone, PTL DEF ReduceSpec, NothingMissed

(* When GddCtxReduce() has come to an end, every wait left in the graph is  *)
(* part of a deadlock: the test for emptiness raises no false alarm about   *)
(* the graph it was given.                                                  *)
THEOREM ReductionExact == ReduceSpec => []NoFalseEdge
<1>1. VictimsGone => NoFalseEdge
  BY IrreducibleIsCore DEF VictimsGone, NoFalseEdge
<1> QED BY <1>1, VictimsStayGone, PTL

(* Whichever vertex of a fully reduced graph GddCtxBreakDeadLock() takes    *)
(* for a victim, it is a transaction that can never move: also after the    *)
(* earlier victims of the round were removed.                               *)
THEOREM AnyVictimIsDeadlocked ==
    ReduceSpec => [](~ building /\ Irreducible(graph) => Linked(graph) \subseteq Deadlocked(graph))
<1> DEFINE AllStuck == ~ building /\ Irreducible(graph) => Linked(graph) \subseteq Deadlocked(graph)
<1>1. VictimsGone => AllStuck
  <2> SUFFICES ASSUME VictimsGone, Irreducible(graph), NEW v \in Linked(graph)
               PROVE  v \in Deadlocked(graph)
    OBVIOUS
  <2>1. \A e \in graph : Segment(e) \in Seg /\ From(e) \in Vid /\ To(e) \in Vid
    BY DEF VictimsGone, Edge, Segment, From, To
  <2>2. \A e \in graph : /\ HasOut(graph, To(e))
                         /\ Solid(e) \/ HasLocalOut(graph, Segment(e), To(e))
    <3> SUFFICES ASSUME NEW e \in graph
                 PROVE  /\ HasOut(graph, To(e))
                        /\ Solid(e) \/ HasLocalOut(graph, Segment(e), To(e))
      OBVIOUS
    <3>1. e \notin Reducible(graph, Segment(e), To(e))
      BY <2>1 DEF Irreducible
    <3> QED BY <3>1 DEF Reducible
  <2>3. Persists(graph)
    BY <2>2 DEF Persists
  <2>4. v \in Vid /\ HasOut(graph, v)
    BY <2>1, <2>2 DEF Linked, HasOut
  <2> QED BY <2>3, <2>4 DEF Deadlocked
<1> QED BY <1>1, VictimsStayGone, PTL

-----------------------------------------------------------------------------
\* A non-empty set of naturals below a bound has a largest element.
LEMMA MaxFact ==
    ASSUME NEW S \in SUBSET Nat, S # {}, NEW n \in Nat, \A x \in S : x < n
    PROVE  LET m == CHOOSE v \in S : \A w \in S : w <= v
           IN  m \in S /\ \A w \in S : w <= m
<1> DEFINE R == {ss \in Nat \X Nat : ss[1] < ss[2]}
           D == {d \in Nat : n - d \in S}
<1>1. IsWellFoundedOn(R, Nat)
    BY NatLessThanWellFounded DEF OpToRel
<1>2. D # {} /\ D \subseteq Nat
  <2>1. PICK x \in S : TRUE
      OBVIOUS
  <2>2. n - x \in Nat /\ n - (n - x) = x
      BY <2>1
  <2> QED
      BY <2>1, <2>2
<1> HIDE DEF R
<1>3. PICK d \in D : \A y \in D : ~ (<<y, d>> \in R)
    BY <1>1, <1>2, WFMin
<1>4. n - d \in S /\ d \in Nat
    BY <1>3
<1>5. ASSUME NEW w \in S PROVE w <= n - d
  <2>1. w \in Nat /\ w < n /\ n - w \in Nat /\ n - (n - w) = w
      OBVIOUS
  <2>2. n - w \in D
      BY <2>1
  <2>3. ~ (<<n - w, d>> \in R)
      BY <1>3, <2>2
  <2>4. ~ (n - w < d)
      BY <1>4, <2>1, <2>3 DEF R
  <2> QED
      BY <1>4, <2>1, <2>4
<1>6. \E v \in S : \A w \in S : w <= v
    BY <1>4, <1>5
<1> QED
    BY <1>6

(* buildWaitGraph() reads finitely many rows: the ids have a bound. *)
Bounded == \E n \in Nat : \A e \in graph : From(e) < n /\ To(e) < n

\* Every step leaves the ids of the graph bounded.
LEMMA BoundedStep == VictimsGone /\ Bounded /\ [ReduceNext]_reduceVars => Bounded'
<1> SUFFICES ASSUME VictimsGone, Bounded, [ReduceNext]_reduceVars PROVE Bounded'
  OBVIOUS
<1>1. PICK n \in Nat : \A e \in graph : From(e) < n /\ To(e) < n
  BY DEF Bounded
<1>2. CASE graph' \subseteq graph
  BY <1>1, <1>2 DEF Bounded
<1>3. ASSUME NEW f \in Edge, GddCtxAddEdge(f) PROVE Bounded'
  <2> DEFINE m == n + From(f) + To(f) + 1
  <2>1. From(f) \in Nat /\ To(f) \in Nat
    BY GraphAssumption DEF Edge, From, To
  <2>2. \A e \in graph : From(e) \in Nat /\ To(e) \in Nat
    BY GraphAssumption DEF VictimsGone, Edge, From, To
  <2>3. m \in Nat /\ n < m /\ From(f) < m /\ To(f) < m
    BY <2>1
  <2>4. graph' = graph \cup {f}
    BY <1>3 DEF GddCtxAddEdge
  <2> HIDE DEF m
  <2>5. \A e \in graph : From(e) < m /\ To(e) < m
    BY <1>1, <2>2, <2>3
  <2> QED BY <2>3, <2>4, <2>5 DEF Bounded
<1>4. CASE BreakCycle
  <2>1. graph' = {e \in graph : gddCtxGetMaxVid(graph) \notin {From(e), To(e)}}
    BY <1>4 DEF BreakCycle, gddCtxRemoveVid
  <2> QED BY <1>2, <2>1
<1> QED BY <1>2, <1>3, <1>4 DEF ReduceNext, Detect, gddVertReduce, EndBuild, reduceVars

\* The ids of the graph always have a bound.
LEMMA AlwaysBounded == ReduceSpec => []Bounded
<1>1. ReduceInit => Bounded
  <2> SUFFICES ASSUME graph = {} PROVE Bounded
    BY DEF ReduceInit
  <2>1. 0 \in Nat /\ \A e \in graph : From(e) < 0 /\ To(e) < 0
    OBVIOUS
  <2> QED BY <2>1 DEF Bounded
<1> QED BY <1>1, BoundedStep, VictimsStayGone, PTL DEF ReduceSpec

(* GddCtxBreakDeadLock() takes a transaction that can never move for a      *)
(* victim, also after the earlier victims of the round were removed, as     *)
(* long as ids fit the int that gddCtxGetMaxVid() returns.                  *)
THEOREM VictimsAreDeadlocked ==
    ASSUME \A v \in Vid : AsInt(v) = v
    PROVE  ReduceSpec => VictimDeadlocked
<1> DEFINE Stuck    == Linked(graph) \subseteq Deadlocked(graph)
           AllStuck == ~ building /\ Irreducible(graph) => Stuck
           Just     == victims' \ victims \subseteq Deadlocked(graph)
<1>1. VictimsGone /\ Bounded /\ AllStuck /\ [ReduceNext]_reduceVars => [Just]_reduceVars
  <2> SUFFICES ASSUME VictimsGone, Bounded, AllStuck, ReduceNext
               PROVE  Just
    OBVIOUS
  <2>1. CASE victims' = victims
    BY <2>1
  <2>2. CASE BreakCycle
    <3> DEFINE L == Linked(graph)
               m == CHOOSE v \in L : \A w \in L : w <= v
    <3>1. /\ graph # {} /\ Stuck
          /\ victims' = victims \cup {AsInt(m)}
      BY <2>2 DEF BreakCycle, gddCtxGetMaxVid
    <3>2. L \in SUBSET Vid /\ L \in SUBSET Nat
      BY GraphAssumption DEF VictimsGone, Linked, Edge, From, To
    <3>3. L # {}
      BY <3>1 DEF Linked
    <3>4. PICK n \in Nat : \A x \in L : x < n
      BY DEF Bounded, Linked
    <3> HIDE DEF L
    <3>5. m \in L
      BY <3>2, <3>3, <3>4, MaxFact
    <3> HIDE DEF m
    <3>6. AsInt(m) = m
      BY <3>2, <3>5
    <3>7. m \in Deadlocked(graph)
      BY <3>1, <3>5 DEF L
    <3> QED BY <3>1, <3>6, <3>7
  <2> QED BY <2>1, <2>2 DEF ReduceNext, Detect, GddCtxAddEdge, EndBuild, gddVertReduce
<1>2. ReduceSpec => []AllStuck
  BY AnyVictimIsDeadlocked
<1> QED BY <1>1, <1>2, VictimsStayGone, AlwaysBounded, PTL DEF ReduceSpec, VictimDeadlocked
=============================================================================
