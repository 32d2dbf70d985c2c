----------------------- MODULE DirectoryServiceProofs -----------------------
(***************************************************************************)
(* For every set of directories, putters and readers: the store stays      *)
(* closed under references, stored sizes agree, and traversals are         *)
(* complete.                                                               *)
(***************************************************************************)
EXTENDS DirectoryService, WellFoundedInduction, TLAPS

(* What add_order_unchecked keeps true of a graph: a stored directory has  *)
(* an edge for each of its entries, and an entry whose child is stored too *)
(* announces that child's size.                                            *)
GraphInv(g) ==
    /\ g.known \subseteq g.nodes
    /\ \A d \in g.known : Refs(d) \subseteq g.nodes
    /\ \A d \in g.known : \A i \in DOMAIN Entries[d] : \E e \in Edges(g) :
          e.from = d /\ e.to = Entries[d][i].digest /\ e.size = Entries[d][i].size
    /\ \A d \in g.known : \A i \in DOMAIN Entries[d] :
          Entries[d][i].digest \in g.known
             => check_edge(Entries[d][i].size, Entries[d][i].digest)
    /\ \A e \in Edges(g) :
          /\ e.from \in g.nodes /\ e.to \in g.nodes
          /\ Depth[e.from] < Depth[e.to]

(* What a leaves-to-root putter keeps true on top of that: an edge leads   *)
(* to a digest the validator was shown, and a digest it was shown is       *)
(* stored unless its own entries contradict a stored child, for good.      *)
OrderInv(g) ==
    /\ \A e \in Edges(g) : e.to \in g.order
    /\ \A d \in g.order : d \in g.known \/ BadChildren(g, d) # {}

(* A closing putter has stored, of its upload, all it no longer holds.     *)
PutterInv(p) ==
    /\ GraphInv(graph[p]) /\ OrderInv(graph[p])
    /\ pc[p] # "panicked"
    /\ pc[p] = "closing" =>
          /\ validate(graph[p])
          /\ todo[p] \subseteq graph[p].nodes
          /\ graph[p].nodes \subseteq todo[p] \cup db
    /\ pc[p] = "done" => graph[p].nodes \subseteq db

(* A running traversal either still has to look up its root, or all it     *)
(* sent and still has to send is in the store.                             *)
ReaderInv(r) ==
    /\ rpc[r] = "idle" => sent[r] = {}
    /\ rpc[r] = "running" =>
          \/ sent[r] = {} /\ worklist[r] = {root[r]}
          \/ /\ root[r] \in sent[r]
             /\ sent[r] \cup worklist[r] \subseteq db
             /\ \A d \in sent[r] : Refs(d) \subseteq sent[r] \cup worklist[r]
             /\ \A d \in worklist[r] : \E s \in sent[r] : d \in Refs(s)
    /\ rpc[r] = "done" =>
          \/ sent[r] = {}
          \/ root[r] \in sent[r] /\ \A d \in sent[r] : Refs(d) \subseteq sent[r]
    /\ rpc[r] # "error"

IInv ==
    /\ TypeOK
    /\ StoreClosed
    /\ StoredSizesAgree
    /\ \A p \in Putters : PutterInv(p)
    /\ \A r \in Readers : ReaderInv(r)

-----------------------------------------------------------------------------
(* Entries are well formed: what DirsAssumption says of each.              *)
LEMMA EntryType ==
    ASSUME NEW d \in Dirs, NEW i \in DOMAIN Entries[d]
    PROVE  /\ i \in Nat
           /\ Entries[d][i].digest \in Dirs
           /\ Entries[d][i].size \in Nat
  <1>1. Entries[d][i] \in Entry /\ i \in Nat
    BY DirsAssumption
  <1> QED BY <1>1 DEF Entry

(* The digests a directory refers to are digests.                          *)
LEMMA RefsType == ASSUME NEW d \in Dirs PROVE Refs(d) \subseteq Dirs
  BY EntryType DEF Refs

(* The edges add_order_unchecked links are edges out of d.                 *)
LEMMA LinkedType ==
    ASSUME NEW g \in Graph, NEW d \in Dirs
    PROVE  /\ Linked(g, d) \subseteq Edge
           /\ \A e \in Linked(g, d) : /\ e.from = d /\ e.to \in Refs(d)
                                       /\ Depth[e.from] < Depth[e.to]
  <1> SUFFICES ASSUME NEW i \in DOMAIN Entries[d]
               PROVE  /\ EdgeOf(d, i) \in Edge
                      /\ EdgeOf(d, i).from = d /\ EdgeOf(d, i).to \in Refs(d)
                      /\ Depth[EdgeOf(d, i).from] < Depth[EdgeOf(d, i).to]
    BY DEF Linked
  <1> QED BY EntryType, DepthAssumption DEF EdgeOf, Edge, Refs

(* Adding the edges of a directory keeps the graph a graph.                *)
LEMMA WithChildEdgesType ==
    ASSUME NEW g \in Graph, NEW d \in Dirs
    PROVE  WithChildEdges(g, d) \in Graph
  <1>1. Linked(g, d) \subseteq Edge /\ {e.to : e \in Linked(g, d)} \subseteq Dirs
    BY LinkedType, RefsType
  <1> QED BY <1>1 DEF WithChildEdges, Graph

(* Taking edge weights and marking a directory known keep it a graph too.  *)
LEMMA TakeType ==
    ASSUME NEW g \in Graph, NEW T \in SUBSET g.pending, NEW d \in Dirs
    PROVE  Take(g, T) \in Graph /\ MarkKnown(Take(g, T), d) \in Graph
  BY DEF Take, MarkKnown, Graph

(* What add_order_unchecked can have done: nothing to the set of known     *)
(* directories, or d became known after all its entries got an edge, no    *)
(* stored child disagreed with it, and every edge into it was compared.    *)
BecameKnown(g, d, h) ==
    /\ h.known = g.known \cup {d}
    /\ d \in h.nodes /\ Refs(d) \subseteq h.nodes
    /\ BadChildren(g, d) = {}
    /\ \A i \in DOMAIN Entries[d] : EdgeOf(d, i) \in Edges(h)
    /\ \A e \in Edges(g) : e.to = d => check_edge(e.size, d)

Grew(g, d, h) ==
    /\ h.order = g.order
    /\ g.nodes \subseteq h.nodes
    /\ Edges(g) \subseteq Edges(h)
    /\ \A e \in Edges(h) \ Edges(g) : /\ e.from = d /\ d \in h.nodes
                                      /\ e.to \in Refs(d) /\ e.to \in h.nodes
                                      /\ Depth[e.from] < Depth[e.to]

(* Every outcome of add_order_unchecked is one of those two.               *)
LEMMA AddOutcome ==
    ASSUME NEW g \in Graph, NEW d \in Dirs, NEW out \in add_order_unchecked(g, d)
    PROVE  /\ out.graph \in Graph
           /\ Grew(g, d, out.graph)
           /\ out.graph.known = g.known \/ BecameKnown(g, d, out.graph)
  <1> DEFINE g1 == WithChildEdges(g, d)
  <1>1. g1 \in Graph /\ Grew(g, d, g1) /\ g1.known = g.known /\ d \in g1.nodes
    BY WithChildEdgesType, LinkedType DEF WithChildEdges, Grew, Edges
  <1>2. CASE d \in g.known
    BY <1>2 DEF add_order_unchecked, Grew
  <1>3. CASE d \notin g.known /\ BadChildren(g, d) # {}
    BY <1>1, <1>3 DEF add_order_unchecked
  <1>4. CASE d \notin g.known /\ BadChildren(g, d) = {}
    <2> DEFINE In == Into(g1.pending, d)
               Bad == WrongSize(In)
    <2>1. out \in CheckIncoming(g1, d)
      BY <1>4 DEF add_order_unchecked
    <2>2. \A T \in SUBSET In : /\ Take(g1, T) \in Graph
                               /\ Grew(g, d, Take(g1, T))
                               /\ Take(g1, T).known = g.known
      <3> SUFFICES ASSUME NEW T \in SUBSET In
                   PROVE  /\ Take(g1, T) \in Graph
                          /\ Grew(g, d, Take(g1, T))
                          /\ Take(g1, T).known = g.known
        OBVIOUS
      <3>1. T \in SUBSET g1.pending
        BY DEF Into
      <3>2. Take(g1, T) \in Graph
        BY <1>1, <3>1, TakeType
      <3> HIDE DEF g1
      <3> QED BY <1>1, <3>1, <3>2 DEF Take, Grew, Edges
    <2>3. CASE Bad = {} /\ Into(g1.checked, d) = {}
      <3> DEFINE h == MarkKnown(Take(g1, In), d)
      <3>1. out.graph = h
        BY <2>1, <2>3 DEF CheckIncoming
      <3>2. h \in Graph
        <4>1. In \in SUBSET g1.pending
          BY Zenon DEF Into
        <4> QED BY <4>1, <1>1, TakeType
      <3>3. /\ h.known = g.known \cup {d} /\ h.nodes = g1.nodes /\ h.order = g1.order
            /\ Edges(h) = Edges(g1)
        <4>1. In \subseteq g1.pending
          BY DEF Into
        <4> HIDE DEF g1
        <4> QED BY <1>1, <4>1 DEF MarkKnown, Take, Edges
      <3>4. \A i \in DOMAIN Entries[d] : EdgeOf(d, i) \in Linked(g, d)
        BY <1>4 DEF Linked
      <3>5. \A i \in DOMAIN Entries[d] : EdgeOf(d, i) \in Edges(g1)
        BY <3>4 DEF WithChildEdges, Edges
      <3>6. Refs(d) \subseteq g1.nodes
        <4>1. \A i \in DOMAIN Entries[d] : EdgeOf(d, i).to = Entries[d][i].digest
          BY DEF EdgeOf
        <4>2. Refs(d) \subseteq {e.to : e \in Linked(g, d)}
          BY <4>1, <3>4 DEF Refs
        <4> QED BY <4>2 DEF WithChildEdges
      <3>7. \A e \in Edges(g1) : e.to = d => check_edge(e.size, d)
        BY <2>3 DEF Edges, Into, WrongSize
      <3> HIDE DEF g1, h
      <3> QED BY <1>1, <1>4, <3>1, <3>2, <3>3, <3>5, <3>6, <3>7 DEF BecameKnown, Grew
    <2>4. CASE ~(Bad = {} /\ Into(g1.checked, d) = {})
      <3>1. PICK T \in SUBSET In : out.graph = Take(g1, T)
        BY <2>1, <2>4 DEF CheckIncoming
      <3> QED BY <3>1, <2>2
    <2> QED BY <2>3, <2>4
  <1> QED BY <1>2, <1>3, <1>4

(* GraphInv survives add_order_unchecked, whether it succeeds or not.      *)
LEMMA GraphInvAdd ==
    ASSUME NEW g \in Graph, GraphInv(g), NEW d \in Dirs,
           NEW out \in add_order_unchecked(g, d)
    PROVE  GraphInv(out.graph)
  <1> DEFINE h == out.graph
  <1>1. /\ h \in Graph /\ g.nodes \subseteq h.nodes /\ Edges(g) \subseteq Edges(h)
        /\ h.known = g.known \/ BecameKnown(g, d, h)
        /\ Grew(g, d, h)
    BY AddOutcome DEF Grew
  <1> SUFFICES GraphInv(h)
    OBVIOUS
  <1> HIDE DEF h
  <1>0. \A e \in Edges(h) : /\ e.from \in h.nodes /\ e.to \in h.nodes
                            /\ Depth[e.from] < Depth[e.to]
    BY <1>1 DEF GraphInv, Grew
  <1>2. CASE h.known = g.known
    BY <1>0, <1>1, <1>2 DEF GraphInv
  <1>3. CASE BecameKnown(g, d, h)
    <2>1. h.known \subseteq h.nodes /\ \A c \in h.known : Refs(c) \subseteq h.nodes
      BY <1>1, <1>3 DEF GraphInv, BecameKnown
    <2>2. \A c \in h.known : \A i \in DOMAIN Entries[c] : \E e \in Edges(h) :
             e.from = c /\ e.to = Entries[c][i].digest /\ e.size = Entries[c][i].size
      <3> SUFFICES ASSUME NEW c \in h.known, NEW i \in DOMAIN Entries[c]
                   PROVE  \E e \in Edges(h) : e.from = c /\ e.to = Entries[c][i].digest
                                                          /\ e.size = Entries[c][i].size
        OBVIOUS
      <3>1. CASE c \in g.known
        BY <3>1, <1>1 DEF GraphInv
      <3>2. CASE c = d
        BY <3>2, <1>3, Zenon DEF BecameKnown, EdgeOf
      <3> QED BY <3>1, <3>2, <1>3 DEF BecameKnown
    <2>3. ASSUME NEW c \in h.known, NEW i \in DOMAIN Entries[c],
                 Entries[c][i].digest \in h.known
          PROVE  check_edge(Entries[c][i].size, Entries[c][i].digest)
      <3>1. c \in Dirs
        BY <1>1 DEF Graph
      <3>2. Entries[c][i].digest # c
        <4>1. Depth[c] \in Nat /\ Depth[c] < Depth[Entries[c][i].digest]
          BY DepthAssumption, <3>1
        <4> QED BY <4>1
      <3>3. CASE c \in g.known /\ Entries[c][i].digest \in g.known
        BY <3>3 DEF GraphInv
      <3>4. CASE c \in g.known /\ Entries[c][i].digest = d
        <4>1. PICK e \in Edges(g) : e.to = d /\ e.size = Entries[c][i].size
          BY <3>4 DEF GraphInv
        <4> QED BY <4>1, <3>4, <1>3 DEF BecameKnown
      <3>5. CASE c = d /\ Entries[c][i].digest \in g.known
        BY <3>5, <1>3 DEF BecameKnown, BadChildren
      <3> QED BY <2>3, <3>2, <3>3, <3>4, <3>5, <1>3 DEF BecameKnown
    <2> QED BY <1>0, <2>1, <2>2, <2>3, Zenon DEF GraphInv
  <1> QED BY <1>1, <1>2, <1>3

(* A directory nothing points to yet is stored, unless its own entries     *)
(* contradict a stored child; the incoming edges cannot fail or panic.     *)
LEMMA AddUnreferenced ==
    ASSUME NEW g \in Graph, NEW d \in Dirs, Into(Edges(g), d) = {},
           NEW out \in add_order_unchecked(g, d)
    PROVE  /\ out.res # "panic"
           /\ d \in out.graph.known \/ BadChildren(g, d) # {}
           /\ BadChildren(g, d) = {} => out.res = "ok"
  <1> DEFINE g1 == WithChildEdges(g, d)
  <1>1. CASE d \in g.known \/ BadChildren(g, d) # {}
    BY <1>1 DEF add_order_unchecked
  <1>2. CASE ~(d \in g.known \/ BadChildren(g, d) # {})
    <2>1. \A e \in Linked(g, d) : e.to # d
      <3> SUFFICES ASSUME NEW e \in Linked(g, d), e.to = d PROVE FALSE
        OBVIOUS
      <3>1. e.from = d /\ Depth[e.from] < Depth[e.to]
        BY LinkedType
      <3> QED BY <3>1, DepthAssumption
    <2>2. Into(g1.pending, d) = {} /\ Into(g1.checked, d) = {}
      BY <2>1 DEF WithChildEdges, Into, Edges
    <2>3. WrongSize(Into(g1.pending, d)) = {}
      BY <2>2 DEF WrongSize
    <2>4. out \in CheckIncoming(g1, d)
      BY <1>2, Zenon DEF add_order_unchecked
    <2>5. out = [graph |-> MarkKnown(Take(g1, Into(g1.pending, d)), d), res |-> "ok"]
      BY <2>2, <2>3, <2>4 DEF CheckIncoming
    <2> QED BY <2>5 DEF MarkKnown
  <1> QED BY <1>1, <1>2

(* A SimplePutter's put() keeps its graph in order and does not panic.     *)
LEMMA PutKeepsGraph ==
    ASSUME NEW g \in Graph, GraphInv(g), OrderInv(g), NEW d \in Dirs,
           NEW out \in LeavesToRoot_add(g, d)
    PROVE  /\ out.graph \in Graph /\ GraphInv(out.graph) /\ OrderInv(out.graph)
           /\ out.res # "panic"
  <1>1. CASE ~LeavesToRoot_allowed(g, d)
    BY <1>1 DEF LeavesToRoot_add
  <1>2. CASE LeavesToRoot_allowed(g, d)
    <2> DEFINE g0 == WithOrder(g, g.order \cup {d})
               h == out.graph
    <2>1. /\ g0 \in Graph /\ GraphInv(g0) /\ Edges(g0) = Edges(g)
          /\ g0.known = g.known /\ g0.order = g.order \cup {d}
      BY DEF WithOrder, Graph, GraphInv, Edges
    <2>2. out \in add_order_unchecked(g0, d)
      BY <1>2 DEF LeavesToRoot_add
    <2> HIDE DEF g0
    <2>3. h \in Graph /\ GraphInv(h)
      BY <2>1, <2>2, AddOutcome, GraphInvAdd, Zenon
    <2>4. Grew(g0, d, h) /\ (h.known = g.known \/ h.known = g.known \cup {d})
      BY <2>1, <2>2, AddOutcome DEF BecameKnown
    <2> HIDE DEF h
    <2>5. \A e \in Edges(h) : e.to \in h.order
      BY <1>2, <2>1, <2>4, Zenon DEF Grew, OrderInv, LeavesToRoot_allowed
    <2>6. \A c \in Dirs : BadChildren(g, c) \subseteq BadChildren(h, c)
      BY <2>4, Zenon DEF BadChildren
    <2>7. BadChildren(g0, d) = BadChildren(g, d)
      BY <2>1, Zenon DEF BadChildren
    <2>8. out.res # "panic" /\ (d \in h.known \/ BadChildren(g, d) # {})
      <3>1. CASE d \in g.known \/ BadChildren(g, d) # {}
        BY <3>1, <2>1, <2>2, <2>4, <2>7 DEF add_order_unchecked, h
      <3>2. CASE ~(d \in g.known \/ BadChildren(g, d) # {})
        <4>1. d \notin g.order
          BY <3>2 DEF OrderInv
        <4>2. Into(Edges(g0), d) = {}
          BY <4>1, <2>1, Zenon DEF OrderInv, Into
        <4> QED BY <4>2, <2>1, <2>2, <2>7, AddUnreferenced DEF h
      <3> QED BY <3>1, <3>2, Zenon
    <2>9. \A c \in h.order : c \in h.known \/ BadChildren(h, c) # {}
      <3>1. h.order = g.order \cup {d} /\ g.order \subseteq Dirs
        BY <2>1, <2>4 DEF Grew, Graph
      <3> QED BY <3>1, <2>4, <2>6, <2>8, Zenon DEF OrderInv
    <2> QED BY <2>3, <2>5, <2>8, <2>9, Zenon DEF OrderInv, h
  <1> QED BY <1>1, <1>2

-----------------------------------------------------------------------------
(* A nonempty set of naturals has a least element.                         *)
LEMMA LeastNatural ==
    ASSUME NEW T \in SUBSET Nat, T # {}
    PROVE  \E x \in T : \A y \in T : x <= y
  <1> DEFINE R == OpToRel(<, Nat)
  <1>1. IsWellFoundedOn(R, Nat)
    BY NatLessThanWellFounded, Zenon
  <1>2. \A x, y \in Nat : y < x => <<y, x>> \in R
    BY DEF OpToRel
  <1> HIDE DEF R
  <1>3. PICK x \in T : \A y \in T : ~ (<<y, x>> \in R)
    BY <1>1, WFMin, Zenon
  <1>4. \A y \in T : ~(y < x)
    BY <1>2, <1>3, Zenon
  <1>5. \A y \in T : x <= y
    BY <1>4
  <1> QED BY <1>5

(* A drain from the roots reaches every node: a node missed by a set that  *)
(* holds the roots and is closed under edges, chosen as shallow as         *)
(* possible, would be reached from a shallower one.                        *)
LEMMA DrainedAll ==
    ASSUME NEW g \in Graph, GraphInv(g)
    PROVE  Drained(g) = g.nodes
  <1> SUFFICES ASSUME NEW S \in SUBSET g.nodes, Roots(g) \subseteq S,
                      ClosedUnderEdges(g, S), g.nodes \ S # {}
               PROVE  FALSE
    BY DEF Drained
  <1> DEFINE T == {Depth[n] : n \in g.nodes \ S}
  <1>1. g.nodes \subseteq Dirs
    BY DEF Graph
  <1>2. T \in SUBSET Nat /\ T # {}
    BY <1>1, DepthAssumption
  <1>3. PICK x \in T : \A y \in T : x <= y
    <2> HIDE DEF T
    <2> QED BY <1>2, LeastNatural, Zenon
  <1>4. PICK n \in g.nodes \ S : x = Depth[n]
    OBVIOUS
  <1>5. PICK e \in Edges(g) : e.to = n
    BY <1>4 DEF Roots, Into
  <1>6. e.from \in g.nodes \ S /\ Depth[e.from] < Depth[n]
    BY <1>4, <1>5 DEF ClosedUnderEdges, GraphInv
  <1>7. Depth[e.from] \in T /\ Depth[e.from] \in Nat /\ Depth[n] \in Nat
    BY <1>1, <1>4, <1>6, DepthAssumption
  <1> QED BY <1>3, <1>4, <1>6, <1>7

-----------------------------------------------------------------------------
(* The initial state satisfies the inductive invariant.                    *)
LEMMA InitIInv == Init => IInv
  <1> SUFFICES ASSUME Init PROVE IInv
    OBVIOUS
  <1>1. EmptyGraph({}) \in Graph
    BY DEF EmptyGraph, Graph
  <1>2. TypeOK
    BY <1>1 DEF Init, TypeOK, PutterPc, ReaderPc
  <1>3. StoreClosed /\ StoredSizesAgree
    BY Zenon DEF Init, StoreClosed, StoredSizesAgree
  <1>4. GraphInv(EmptyGraph({})) /\ OrderInv(EmptyGraph({}))
    BY Zenon DEF EmptyGraph, GraphInv, OrderInv, Edges
  <1>5. \A p \in Putters : PutterInv(p)
    BY <1>4 DEF Init, PutterInv
  <1>6. \A r \in Readers : ReaderInv(r)
    BY DEF Init, ReaderInv
  <1> QED BY <1>2, <1>3, <1>5, <1>6 DEF IInv

(* A step that leaves the store and the traversals alone, and of the       *)
(* putters only moves p, keeps the invariant if it keeps p's part.         *)
LEMMA PutterStep ==
    ASSUME IInv, NEW p \in Putters, TypeOK', PutterInv(p)',
           db' = db, UNCHANGED rvars,
           \A q \in Putters \ {p} : /\ graph'[q] = graph[q] /\ pc'[q] = pc[q]
                                    /\ todo'[q] = todo[q]
    PROVE  IInv'
  <1>1. StoreClosed' /\ StoredSizesAgree'
    BY Zenon DEF IInv, StoreClosed, StoredSizesAgree
  <1>2. ASSUME NEW q \in Putters \ {p} PROVE PutterInv(q)'
    <2>1. PutterInv(q)
      BY Zenon DEF IInv
    <2> QED BY <2>1 DEF PutterInv
  <1>3. ASSUME NEW r \in Readers PROVE ReaderInv(r)'
    <2>1. ReaderInv(r)
      BY Zenon DEF IInv
    <2> QED BY <2>1 DEF ReaderInv, rvars
  <1> QED BY <1>1, <1>2, <1>3, Zenon DEF IInv

(* The same for a step of traversal r that only reads the store.           *)
LEMMA ReaderStep ==
    ASSUME IInv, NEW r \in Readers, TypeOK', ReaderInv(r)',
           db' = db, UNCHANGED pvars,
           \A q \in Readers \ {r} : /\ rpc'[q] = rpc[q] /\ root'[q] = root[q]
                                    /\ worklist'[q] = worklist[q] /\ sent'[q] = sent[q]
    PROVE  IInv'
  <1>1. StoreClosed' /\ StoredSizesAgree'
    BY Zenon DEF IInv, StoreClosed, StoredSizesAgree
  <1>2. ASSUME NEW p \in Putters PROVE PutterInv(p)'
    <2>1. PutterInv(p)
      BY Zenon DEF IInv
    <2> QED BY <2>1 DEF PutterInv, pvars
  <1>3. ASSUME NEW q \in Readers \ {r} PROVE ReaderInv(q)'
    <2>1. ReaderInv(q)
      BY Zenon DEF IInv
    <2> QED BY <2>1, Zenon DEF ReaderInv
  <1> QED BY <1>1, <1>2, <1>3, Zenon DEF IInv

(* put(): the graph stays in order, nothing is stored.                     *)
LEMMA PutIInv ==
    ASSUME IInv, NEW p \in Putters, NEW d \in Dirs, Put(p, d)
    PROVE  IInv'
  <1>1. TypeOK /\ PutterInv(p) /\ graph[p] \in Graph
    BY DEF IInv, TypeOK
  <1>2. PICK out \in LeavesToRoot_add(graph[p], d) :
           /\ graph' = [graph EXCEPT ![p] = out.graph]
           /\ rejected' = [rejected EXCEPT ![p] = @ \/ out.res # "ok"]
           /\ pc' = [pc EXCEPT ![p] = IF out.res = "panic" THEN "panicked" ELSE @]
    BY Zenon DEF Put
  <1>3. /\ out.graph \in Graph /\ GraphInv(out.graph) /\ OrderInv(out.graph)
        /\ out.res # "panic"
    BY <1>1, PutKeepsGraph DEF PutterInv
  <1>4. pc[p] = "open" /\ pc' = pc /\ UNCHANGED <<db, todo>> /\ UNCHANGED rvars
    BY <1>1, <1>2, <1>3 DEF Put, TypeOK
  <1>5. rejected' \in [Putters -> BOOLEAN]
    <2>1. (rejected[p] \/ out.res # "ok") \in BOOLEAN
      OBVIOUS
    <2> QED BY <1>1, <1>2, <2>1, Zenon DEF TypeOK
  <1>6. TypeOK'
    BY <1>1, <1>2, <1>3, <1>4, <1>5 DEF TypeOK, rvars
  <1>7. graph'[p] = out.graph /\ \A q \in Putters \ {p} : graph'[q] = graph[q]
    BY <1>1, <1>2 DEF TypeOK
  <1>8. PutterInv(p)'
    BY <1>3, <1>4, <1>7, Zenon DEF PutterInv
  <1> QED BY <1>4, <1>6, <1>7, <1>8, PutterStep, Zenon

(* close() up to its first store: the drain covers the whole graph.        *)
LEMMA CloseIInv ==
    ASSUME IInv, NEW p \in Putters, Close(p)
    PROVE  IInv'
  <1>1. TypeOK /\ PutterInv(p) /\ graph[p] \in Graph
    BY Zenon DEF IInv, TypeOK
  <1>2. Drained(graph[p]) = graph[p].nodes /\ graph[p].nodes \subseteq Dirs
    BY <1>1, DrainedAll DEF PutterInv, Graph
  <1>3. UNCHANGED <<db, graph, rejected>> /\ UNCHANGED rvars
    BY Zenon DEF Close
  <1>4. TypeOK' /\ \A q \in Putters \ {p} : pc'[q] = pc[q] /\ todo'[q] = todo[q]
    BY <1>1, <1>2, <1>3 DEF Close, TypeOK, PutterPc, rvars
  <1>5. PutterInv(p)'
    <2>1. CASE validate(graph[p]) /\ Drained(graph[p]) # {}
      <3>1. pc'[p] = "closing" /\ todo'[p] = graph[p].nodes
        BY <2>1, <1>1, <1>2, Zenon DEF Close, TypeOK
      <3> QED BY <3>1, <2>1, <1>1, <1>3, Zenon DEF PutterInv
    <2>2. CASE ~(validate(graph[p]) /\ Drained(graph[p]) # {})
      <3>1. pc'[p] = "failed"
        BY <2>2, <1>1, Zenon DEF Close, TypeOK
      <3> QED BY <3>1, <1>1, <1>3, Zenon DEF PutterInv
    <2> QED BY <2>1, <2>2, Zenon
  <1> QED BY <1>3, <1>4, <1>5, PutterStep, Zenon

(* Failing or abandoning an upload.                                        *)
LEMMA AbandonIInv ==
    ASSUME IInv, NEW p \in Putters, StoreFails(p) \/ Drop(p)
    PROVE  IInv'
  <1>1. TypeOK /\ PutterInv(p)
    BY DEF IInv
  <1>2. /\ UNCHANGED <<db, graph, todo, rejected>> /\ UNCHANGED rvars
        /\ pc' \in [Putters -> PutterPc]
        /\ pc'[p] \in {"failed", "dropped"}
        /\ \A q \in Putters \ {p} : pc'[q] = pc[q]
    BY <1>1, Zenon DEF StoreFails, Drop, TypeOK, PutterPc
  <1>3. TypeOK'
    BY <1>1, <1>2, Zenon DEF TypeOK, rvars
  <1>4. PutterInv(p)'
    BY <1>1, <1>2 DEF PutterInv
  <1> QED BY <1>2, <1>3, <1>4, PutterStep

(* One store of close(): all d refers to is in the store already, because  *)
(* it belongs to the upload and is no longer to do.  The store only grows, *)
(* so nothing another putter or a traversal relies on is lost.             *)
LEMMA StoreIInv ==
    ASSUME IInv, NEW p \in Putters, NEW d \in Dirs, StoreOne(p, d)
    PROVE  IInv'
  <1>1. TypeOK /\ PutterInv(p) /\ StoreClosed /\ StoredSizesAgree
    BY Zenon DEF IInv
  <1>2. /\ pc[p] = "closing" /\ d \in todo[p] /\ Refs(d) \cap todo[p] = {}
        /\ db' = db \cup {d} /\ UNCHANGED <<graph, rejected>> /\ UNCHANGED rvars
        /\ todo' = [todo EXCEPT ![p] = @ \ {d}]
        /\ pc' = [pc EXCEPT ![p] = IF todo[p] = {d} THEN "done" ELSE @]
    BY Zenon DEF StoreOne, NextLeaf
  <1>3. TypeOK'
    BY <1>1, <1>2, Zenon DEF TypeOK, PutterPc, rvars
  <1>4. /\ d \in graph[p].known /\ Refs(d) \subseteq graph[p].known
        /\ graph[p].known \subseteq todo[p] \cup db
    BY <1>1, <1>2, Zenon DEF PutterInv, validate, GraphInv
  <1>5. StoreClosed'
    BY <1>1, <1>2, <1>4, Zenon DEF StoreClosed
  <1>6. StoredSizesAgree'
    <2>1. \A i \in DOMAIN Entries[d] : Entries[d][i].size = SizeOf[Entries[d][i].digest]
      BY <1>1, <1>4 DEF PutterInv, GraphInv, Refs, check_edge
    <2> QED BY <1>1, <1>2, <2>1, Zenon DEF StoredSizesAgree
  <1>7. PutterInv(p)'
    <2>1. todo'[p] = todo[p] \ {d}
      BY <1>1, <1>2, Zenon DEF TypeOK
    <2>2. pc'[p] = IF todo[p] = {d} THEN "done" ELSE "closing"
      BY <1>1, <1>2, Zenon DEF TypeOK
    <2> QED BY <1>1, <1>2, <2>1, <2>2 DEF PutterInv
  <1>8. ASSUME NEW q \in Putters \ {p} PROVE PutterInv(q)'
    <2>1. PutterInv(q) /\ pc'[q] = pc[q] /\ todo'[q] = todo[q] /\ graph'[q] = graph[q]
      BY <1>1, <1>2, Zenon DEF IInv, TypeOK
    <2> QED BY <2>1, <1>2, Zenon DEF PutterInv
  <1>9. ASSUME NEW r \in Readers PROVE ReaderInv(r)'
    <2>1. ReaderInv(r)
      BY DEF IInv
    <2> QED BY <2>1, <1>2 DEF ReaderInv, rvars
  <1> QED BY <1>3, <1>5, <1>6, <1>7, <1>8, <1>9 DEF IInv

(* The transaction of a RedbDirectoryPutter stores the rest of the upload, *)
(* and the upload is closed and consistent in itself.                      *)
LEMMA CommitIInv ==
    ASSUME IInv, NEW p \in Putters, CommitAll(p)
    PROVE  IInv'
  <1>1. TypeOK /\ PutterInv(p) /\ StoreClosed /\ StoredSizesAgree
    BY DEF IInv
  <1>2. /\ pc[p] = "closing" /\ db' = db \cup todo[p]
        /\ UNCHANGED <<graph, rejected>> /\ UNCHANGED rvars
        /\ todo' = [todo EXCEPT ![p] = {}]
        /\ pc' = [pc EXCEPT ![p] = "done"]
    BY Zenon DEF CommitAll
  <1>3. TypeOK'
    BY <1>1, <1>2, Zenon DEF TypeOK, PutterPc, rvars
  <1>4. ASSUME NEW d \in todo[p]
        PROVE  /\ d \in graph[p].known /\ Refs(d) \subseteq graph[p].known
               /\ graph[p].known \subseteq todo[p] \cup db
    BY <1>1, <1>2, <1>4, Zenon DEF PutterInv, validate, GraphInv
  <1>5. StoreClosed'
    BY <1>1, <1>2, <1>4, Zenon DEF StoreClosed
  <1>6. StoredSizesAgree'
    <2>1. ASSUME NEW d \in todo[p]
          PROVE  \A i \in DOMAIN Entries[d] : Entries[d][i].size = SizeOf[Entries[d][i].digest]
      BY <1>1, <1>4, <2>1 DEF PutterInv, GraphInv, Refs, check_edge
    <2> QED BY <1>1, <1>2, <2>1, Zenon DEF StoredSizesAgree
  <1>7. PutterInv(p)'
    <2>1. todo'[p] = {} /\ pc'[p] = "done"
      BY <1>1, <1>2, Zenon DEF TypeOK
    <2> QED BY <1>1, <1>2, <2>1, Zenon DEF PutterInv
  <1>8. ASSUME NEW q \in Putters \ {p} PROVE PutterInv(q)'
    <2>1. PutterInv(q) /\ pc'[q] = pc[q] /\ todo'[q] = todo[q] /\ graph'[q] = graph[q]
      BY <1>1, <1>2, Zenon DEF IInv, TypeOK
    <2> QED BY <2>1, <1>2, Zenon DEF PutterInv
  <1>9. ASSUME NEW r \in Readers PROVE ReaderInv(r)'
    <2>1. ReaderInv(r)
      BY DEF IInv
    <2> QED BY <2>1, <1>2 DEF ReaderInv, rvars
  <1> QED BY <1>3, <1>5, <1>6, <1>7, <1>8, <1>9, Zenon DEF IInv

(* Starting and abandoning a traversal.                                    *)
LEMMA TraverseIInv ==
    ASSUME IInv, NEW r \in Readers, Traverse(r) \/ LookupFails(r)
    PROVE  IInv'
  <1>1. TypeOK /\ ReaderInv(r)
    BY Zenon DEF IInv
  <1>2. CASE Traverse(r)
    <2>1. TypeOK'
      BY <1>1, <1>2 DEF Traverse, TypeOK, ReaderPc, pvars
    <2>2. ReaderInv(r)'
      BY <1>1, <1>2, Zenon DEF Traverse, TypeOK, ReaderInv
    <2> QED BY <1>1, <1>2, <2>1, <2>2, ReaderStep, Zenon DEF Traverse, TypeOK
  <1>3. CASE LookupFails(r)
    <2>1. TypeOK'
      BY <1>1, <1>3, Zenon DEF LookupFails, TypeOK, ReaderPc, pvars
    <2>2. ReaderInv(r)'
      BY <1>1, <1>3, Zenon DEF LookupFails, TypeOK, ReaderInv
    <2> QED BY <1>1, <1>3, <2>1, <2>2, ReaderStep, Zenon DEF LookupFails, TypeOK
  <1> QED BY <1>2, <1>3

(* One lookup of a traversal: past the root, everything on the worklist is *)
(* in the store, so a lookup that finds nothing is the one for the root.   *)
LEMMA TraverseStepIInv ==
    ASSUME IInv, NEW r \in Readers, NEW d \in Dirs, TraverseStep(r, d)
    PROVE  IInv'
  <1>1. TypeOK /\ ReaderInv(r) /\ StoreClosed /\ Refs(d) \subseteq Dirs
    BY RefsType, Zenon DEF IInv
  <1>2. /\ rpc[r] = "running" /\ d \in worklist[r]
        /\ UNCHANGED <<db, root>> /\ UNCHANGED pvars
    BY Zenon DEF TraverseStep
  <1>3. CASE MissingDirectory(r, d)
    <2>1. sent[r] = {} /\ d = root[r]
      BY <1>1, <1>2, <1>3, Zenon DEF ReaderInv, MissingDirectory
    <2>2. TypeOK'
      BY <1>1, <1>2, <1>3, Zenon DEF MissingDirectory, TypeOK, ReaderPc, pvars
    <2>3. ReaderInv(r)'
      BY <1>1, <1>2, <1>3, <2>1, Zenon DEF MissingDirectory, TypeOK, ReaderInv
    <2> QED BY <1>1, <1>2, <1>3, <2>2, <2>3, ReaderStep, Zenon DEF MissingDirectory, TypeOK
  <1>4. CASE FoundDirectory(r, d)
    <2>1. /\ sent'[r] = sent[r] \cup {d}
          /\ worklist'[r] = (worklist[r] \ {d}) \cup (Refs(d) \ sent'[r])
          /\ rpc'[r] = IF worklist'[r] = {} THEN "done" ELSE "running"
      BY <1>1, <1>2, <1>4, Zenon DEF FoundDirectory, TypeOK
    <2>2. \A q \in Readers \ {r} : /\ rpc'[q] = rpc[q] /\ root'[q] = root[q]
                                   /\ worklist'[q] = worklist[q] /\ sent'[q] = sent[q]
      BY <1>1, <1>2, <1>4, Zenon DEF FoundDirectory, TypeOK
    <2>3. TypeOK'
      <3>1. sent' \in [Readers -> SUBSET Dirs]
        BY <1>1, <1>4, Zenon DEF FoundDirectory, TypeOK
      <3>2. (worklist[r] \ {d}) \cup (Refs(d) \ sent'[r]) \in SUBSET Dirs
        BY <1>1, Zenon DEF TypeOK
      <3>3. worklist' \in [Readers -> SUBSET Dirs]
        BY <1>1, <1>4, <3>2, Zenon DEF FoundDirectory, TypeOK
      <3>4. rpc' \in [Readers -> ReaderPc]
        BY <1>1, <1>4, Zenon DEF FoundDirectory, TypeOK, ReaderPc
      <3> QED BY <1>1, <1>2, <3>1, <3>3, <3>4, Zenon DEF TypeOK, pvars
    <2>4. d \in db /\ Refs(d) \subseteq db
      BY <1>1, <1>4, Zenon DEF FoundDirectory, StoreClosed
    <2>5. /\ root[r] \in sent'[r]
          /\ sent'[r] \cup worklist'[r] \subseteq db
          /\ \A c \in sent'[r] : Refs(c) \subseteq sent'[r] \cup worklist'[r]
          /\ \A c \in worklist'[r] : \E s \in sent'[r] : c \in Refs(s)
      BY <1>1, <1>2, <2>1, <2>4, Zenon DEF ReaderInv
    <2>6. ReaderInv(r)'
      BY <1>2, <2>1, <2>5, Zenon DEF ReaderInv
    <2> QED BY <1>2, <2>2, <2>3, <2>6, ReaderStep, Zenon
  <1> QED BY <1>3, <1>4 DEF TraverseStep

(* A stuttering step.                                                      *)
LEMMA StutterIInv == IInv /\ UNCHANGED vars => IInv'
  <1> SUFFICES ASSUME IInv, UNCHANGED vars PROVE IInv'
    BY Zenon
  <1> USE DEF vars
  <1>1. TypeOK' /\ StoreClosed' /\ StoredSizesAgree'
    BY Zenon DEF IInv, TypeOK, StoreClosed, StoredSizesAgree
  <1>2. \A p \in Putters : PutterInv(p)'
    BY Zenon DEF IInv, PutterInv
  <1>3. \A r \in Readers : ReaderInv(r)'
    BY DEF IInv, ReaderInv
  <1> QED BY <1>1, <1>2, <1>3 DEF IInv

(* IInv is inductive: one case per action of Next.                         *)
LEMMA NextIInv == IInv /\ [Next]_vars => IInv'
  <1> SUFFICES ASSUME IInv, [Next]_vars PROVE IInv'
    OBVIOUS
  <1>1. ASSUME NEW p \in Putters, PutterNext(p) PROVE IInv'
    BY <1>1, PutIInv, CloseIInv, AbandonIInv, StoreIInv, CommitIInv DEF PutterNext
  <1>2. ASSUME NEW r \in Readers, ReaderNext(r) PROVE IInv'
    BY <1>2, TraverseIInv, TraverseStepIInv DEF ReaderNext
  <1> QED BY <1>1, <1>2, StutterIInv DEF Next

(* The inductive invariant holds of every behaviour.                       *)
THEOREM Invariance == Spec => []IInv
  BY InitIInv, NextIInv, PTL DEF Spec

(* Type correctness of the whole service.                                  *)
THEOREM TypeCorrect == Spec => []TypeOK
  <1>1. IInv => TypeOK
    BY DEF IInv
  <1> QED BY <1>1, Invariance, PTL

(* However many uploads run, and wherever they fail, the store of          *)
(* memory.rs is closed under references (drain_leaves_to_root).            *)
THEOREM StoreConsistent == Spec => []StoreClosed
  <1>1. IInv => StoreClosed
    BY DEF IInv
  <1> QED BY <1>1, Invariance, PTL

(* No directory that announces a wrong size for a child is ever stored     *)
(* (check_edge), whatever errors the callers of put() ignored.             *)
THEOREM SizesConsistent == Spec => []StoredSizesAgree
  <1>1. IInv => StoredSizesAgree
    BY DEF IInv
  <1> QED BY <1>1, Invariance, PTL

(* SimplePutter never reaches the panics of add_order_unchecked: whatever  *)
(* was uploaded, and in whatever order, an edge is added only to a node    *)
(* that add() has validated.                                               *)
THEOREM PutterSafe == Spec => []PutterNeverPanics
  <1>1. IInv => PutterNeverPanics
    BY Zenon DEF IInv, PutterInv, PutterNeverPanics
  <1> QED BY <1>1, Invariance, PTL

(* close() of a SimplePutter reports success only with the whole upload    *)
(* stored.                                                                 *)
THEOREM PutterCorrect == Spec => []ClosedMeansStored
  <1>1. IInv => ClosedMeansStored
    BY Zenon DEF IInv, PutterInv, ClosedMeansStored
  <1> QED BY <1>1, Invariance, PTL

(* traverse_directory never calls the store inconsistent, and its stream   *)
(* is empty or the whole closure of the root.                              *)
THEOREM TraversalCorrect == Spec => [](TraversalComplete)
  <1>1. IInv => TraversalComplete
    BY DEF IInv, ReaderInv, TraversalComplete
  <1> QED BY <1>1, Invariance, PTL

(* traverse_directory sends the root first, and nothing before something   *)
(* that refers to it.                                                      *)
THEOREM TraversalOrder == Spec => SentRootToLeaves
  <1> DEFINE A == \A r \in Readers : \A d \in sent'[r] \ sent[r] :
                     d = root[r] \/ \E s \in sent[r] : d \in Refs(s)
  <1>1. IInv /\ [Next]_vars => [A]_vars
    <2> SUFFICES ASSUME IInv, Next PROVE A
      BY Zenon
    <2>1. ASSUME NEW p \in Putters, PutterNext(p) PROVE sent' = sent
      BY <2>1, Zenon DEF PutterNext, Put, StoreOne, CommitAll, Close, StoreFails, Drop, rvars
    <2>2. ASSUME NEW r \in Readers, ReaderNext(r) PROVE A
      <3>1. CASE Traverse(r) \/ LookupFails(r)
        BY <3>1, Zenon DEF Traverse, LookupFails
      <3>2. CASE \E d \in Dirs : TraverseStep(r, d)
        <4>1. PICK d \in Dirs : TraverseStep(r, d)
          BY <3>2, Zenon
        <4>2. \A q \in Readers : sent'[q] \ sent[q] \subseteq IF q = r THEN {d} ELSE {}
          BY <4>1 DEF TraverseStep, MissingDirectory, FoundDirectory, IInv, TypeOK
        <4>3. d = root[r] \/ \E s \in sent[r] : d \in Refs(s)
          BY <4>1 DEF TraverseStep, IInv, ReaderInv
        <4> QED BY <4>2, <4>3
      <3> QED BY <2>2, <3>1, <3>2, Zenon DEF ReaderNext
    <2> QED BY <2>1, <2>2, Zenon DEF Next
  <1> QED BY <1>1, Invariance, PTL DEF Spec, SentRootToLeaves
=============================================================================
