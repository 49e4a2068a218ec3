------------------------------ MODULE GddGraph ------------------------------
(***************************************************************************)
(* The wait graphs of the global deadlock detector, what its reduction     *)
(* rules delete from them, and what a deadlock is.  An edge is             *)
(* <<segment, waiter, holder, solid>>: a solid edge lasts until the        *)
(* holder's transaction ends, a dotted one may go as soon as the holder's  *)
(* process on that segment runs.  Parallel edges are one element here:     *)
(* every test of the code is whether a degree is zero.                     *)
(***************************************************************************)
EXTENDS Integers, FiniteSets

CONSTANTS
    Seg,        \* segment ids, the coordinator's among them
    Vid,        \* vertex ids: distributed transaction ids
    IntBits     \* width of int and of TransactionId (32)

ASSUME GraphAssumption ==
    /\ Vid \subseteq Nat \ {0}
    /\ IntBits \in Nat \ {0}

Edge == {e \in Seg \X Vid \X Vid \X BOOLEAN : e[2] # e[3]}
Segment(e) == e[1]
From(e)    == e[2]
To(e)      == e[3]
Solid(e)   == e[4]
-----------------------------------------------------------------------------
(* Degrees: global ones are kept per transaction (GddStat), local ones per  *)
(* vertex of one segment's graph.                                           *)
HasIn(g, v)          == \E e \in g : To(e) = v
HasOut(g, v)         == \E e \in g : From(e) = v
HasLocalOut(g, s, v) == \E e \in g : Segment(e) = s /\ From(e) = v

(* Plausible faults, used only as mutants. *)
KeepEndVerts(g, s, v) ==
    {e \in g : Segment(e) = s /\ To(e) = v /\ ~ Solid(e) /\ ~ HasLocalOut(g, s, v)}
LocalEndVerts(g, s, v) ==
    {e \in g : Segment(e) = s /\ To(e) = v /\ ~ HasLocalOut(g, s, v)}
GlobalOutOnly(g, s, v) ==
    {e \in g : /\ Segment(e) = s
               /\ ~ HasIn(g, v) \/ ~ HasOut(g, v)
               /\ v \in {From(e), To(e)}}
MaxOfAllVerts(g) == CHOOSE v \in Vid : \A w \in Vid : w <= v

(* The edges gddVertReduce() unlinks when it visits vertex v of segment s:  *)
(* all of them when v is an end vertex of the global graph, otherwise the   *)
(* dotted ones into v when v waits for nothing on s.                        *)
Reducible(g, s, v) ==
    {e \in g :
        /\ Segment(e) = s
        /\ \/ /\ ~ HasIn(g, v) \/ ~ HasOut(g, v)
              /\ v \in {From(e), To(e)}
           \/ /\ ~ HasLocalOut(g, s, v)
              /\ To(e) = v
              /\ ~ Solid(e)}

Irreducible(g) == \A s \in Seg, v \in Vid : Reducible(g, s, v) = {}

(* The conversion of the return value of gddCtxGetMaxVid() to int.  A       *)
(* negative one becomes, as a 64-bit id again, one no vertex has.           *)
AsInt(v) == ((v + 2^(IntBits - 1)) % 2^IntBits) - 2^(IntBits - 1)

Linked(g) == {From(e) : e \in g} \cup {To(e) : e \in g}

gddCtxGetMaxVid(g) ==
    AsInt(CHOOSE v \in Linked(g) : \A w \in Linked(g) : w <= v)

gddCtxRemoveVid(g, vid) == {e \in g : vid \notin {From(e), To(e)}}
-----------------------------------------------------------------------------
(* The reference: what a deadlock is, from what edges mean.  A set of edges *)
(* persists when every wait in it has a holder that cannot move: a solid    *)
(* one until the holder ends, so the holder must be waiting somewhere; a    *)
(* dotted one until the holder moves on that segment, so it must be waiting *)
(* there.                                                                   *)
Persists(E) ==
    \A e \in E : IF Solid(e) THEN HasOut(E, To(e)) ELSE HasLocalOut(E, Segment(e), To(e))

(* Transactions that can never move in graph g. *)
Deadlocked(g) ==
    {v \in Vid : \E E \in SUBSET g : Persists(E) /\ HasOut(E, v)}

(* A deadlock in which every waiter is itself waited for. *)
Closed(E) == Persists(E) /\ \A e \in E : HasIn(E, From(e))

(* The edges of all closed deadlocks of g. *)
Core(g) == {e \in g : \E E \in SUBSET g : Closed(E) /\ e \in E}
=============================================================================
