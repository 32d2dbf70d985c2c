------------------------ MODULE DirectoryCacheProofs ------------------------
(***************************************************************************)
(* For any number of clients and whatever the far store sends: near stays  *)
(* a closed DirectoryService, answers are whole closures, and what the     *)
(* root-to-leaves graph of the Cache accepted, the leaves-to-root graph of *)
(* the near putter accepts too.                                            *)
(***************************************************************************)
EXTENDS DirectoryCache, DirectoryServiceProofs

CachePc == {"idle", "near", "far", "putting", "closing", "done"}
Answers == {"", "some", "bad_stream", "panic", "far_error", "near_error", "near_rejects",
            "no_directories", "cancelled"}

CacheTypeOK ==
    /\ cpc \in [Clients -> CachePc]
    /\ copy \in [Clients -> Graph]
    /\ got \in [Clients -> Seq(Dirs)]
    /\ rest \in [Clients -> SUBSET Dirs]
    /\ answer \in [Clients -> Answers]

(* A graph none of whose additions failed: what it heard of is stored or   *)
(* referred to by something stored, its edges are references of stored     *)
(* directories, and only edges to stored directories were compared.        *)
CleanGraph(g) ==
    /\ \A n \in g.nodes : n \in g.known \/ \E d \in g.known : n \in Refs(d)
    /\ \A e \in Edges(g) : e.from \in g.known /\ e.to \in Refs(e.from)
    /\ \A e \in g.checked : e.to \in g.known

(* What far sent is the root, then directories referred to before.         *)
RootFirst(s, top) ==
    /\ s # <<>> => s[1] = top
    /\ \A i \in DOMAIN s : s[i] = top \/ \E j \in 1..(i - 1) : s[i] \in Refs(s[j])

(* copy has stored exactly what far sent, and allows the root and what is  *)
(* referred to.                                                            *)
CopyInv(c) ==
    /\ GraphInv(copy[c]) /\ CleanGraph(copy[c])
    /\ \A d \in copy[c].known : \E i \in DOMAIN got[c] : got[c][i] = d
    /\ \A i \in DOMAIN got[c] : got[c][i] \in copy[c].known
    /\ root[c] \in copy[c].order
    /\ \A d \in copy[c].order : d = root[c] \/ \E s \in copy[c].known : d \in Refs(s)
    /\ RootFirst(got[c], root[c])

(* The near putter of c has not been used.                                 *)
Untouched(c) == graph[c] = EmptyGraph({}) /\ pc[c] = "open" /\ rejected[c] = FALSE

(* The near putter has stored what of the validated copy was drained.      *)
Refilled(c) ==
    /\ validate(copy[c])
    /\ CleanGraph(graph[c])
    /\ rest[c] \subseteq copy[c].known
    /\ graph[c].order = copy[c].known \ rest[c]
    /\ graph[c].known = copy[c].known \ rest[c]

(* What AnswerComplete says of the directories handed to the client.       *)
Whole(c) ==
    /\ RootFirst(got[c], root[c])
    /\ \A i \in DOMAIN got[c] : \A d \in Refs(got[c][i]) :
          \E j \in DOMAIN got[c] : got[c][j] = d

ClientInv(c) ==
    /\ cpc[c] # "done" => answer[c] = ""
    /\ cpc[c] \in {"idle", "near"} => got[c] = <<>>
    /\ cpc[c] \in {"idle", "near", "far"} => Untouched(c)
    /\ cpc[c] = "far" => CopyInv(c)
    /\ cpc[c] = "putting" => /\ pc[c] = "open" /\ rejected[c] = FALSE
                             /\ CopyInv(c) /\ Refilled(c)
    /\ cpc[c] = "closing" => /\ pc[c] = "closing"
                             /\ root[c] \in graph[c].nodes
                             /\ Whole(c)
    /\ answer[c] \notin {"near_rejects", "panic"}
    /\ answer[c] = "some" => root[c] \in db /\ Whole(c)

CacheInv ==
    /\ IInv
    /\ CacheTypeOK
    /\ \A c \in Clients : ClientInv(c)
-----------------------------------------------------------------------------
(* Sequences of received directories: the empty one, and one more.         *)
LEMMA NothingReceived == DOMAIN <<>> = {}
  OBVIOUS

(* A received directory is appended: the sequence grows by one at its end. *)
LEMMA OneMore ==
    ASSUME NEW s \in Seq(Dirs), NEW d \in Dirs
    PROVE  LET n == Len(s) + 1 IN
              /\ n \in Nat /\ n >= 1 /\ DOMAIN s = 1..(n - 1)
              /\ DOMAIN Append(s, d) = 1..n /\ Append(s, d)[n] = d
              /\ \A i \in 1..(n - 1) : Append(s, d)[i] = s[i]
  OBVIOUS

(* The order validator's set is not looked at by the graph.                *)
LEMMA OrderIrrelevant ==
    ASSUME NEW g \in Graph, NEW order \in SUBSET Dirs
    PROVE  LET h == WithOrder(g, order) IN
              /\ h \in Graph /\ h.order = order
              /\ h.known = g.known /\ h.nodes = g.nodes /\ h.checked = g.checked
              /\ Edges(h) = Edges(g)
              /\ GraphInv(g) => GraphInv(h)
              /\ CleanGraph(g) => CleanGraph(h)
  BY DEF WithOrder, Graph, Edges, GraphInv, CleanGraph

(* An addition to a clean graph does not panic, and leaves a clean graph   *)
(* with d stored if it succeeds.                                           *)
LEMMA AddClean ==
    ASSUME NEW g \in Graph, CleanGraph(g), NEW d \in Dirs,
           NEW out \in add_order_unchecked(g, d)
    PROVE  /\ out.res # "panic"
           /\ out.res = "ok" => /\ CleanGraph(out.graph)
                                /\ out.graph.known = g.known \cup {d}
  <1> DEFINE g1 == WithChildEdges(g, d)
             In == Into(g1.pending, d)
             h == MarkKnown(Take(g1, In), d)
  <1>1. CASE d \in g.known
    BY <1>1 DEF add_order_unchecked
  <1>2. CASE d \notin g.known /\ BadChildren(g, d) # {}
    BY <1>2 DEF add_order_unchecked
  <1>3. CASE d \notin g.known /\ BadChildren(g, d) = {}
    <2>1. \A e \in Linked(g, d) : e.from = d /\ e.to \in Refs(d) /\ e.to # d
      <3> SUFFICES ASSUME NEW e \in Linked(g, d)
                   PROVE  e.from = d /\ e.to \in Refs(d) /\ e.to # d
        OBVIOUS
      <3>1. e.from = d /\ e.to \in Refs(d) /\ Depth[e.from] < Depth[e.to]
        BY LinkedType, Zenon
      <3> QED BY <3>1, DepthAssumption
    <2>2. /\ g1.known = g.known
          /\ g1.nodes = g.nodes \cup {d} \cup {e.to : e \in Linked(g, d)}
          /\ Edges(g1) = Edges(g) \cup Linked(g, d)
          /\ \A e \in g1.checked : e.to \in g.known
      BY DEF WithChildEdges, Edges, CleanGraph
    <2>3. Into(g1.checked, d) = {}
      BY <1>3, <2>2, Zenon DEF Into
    <2>4. out \in CheckIncoming(g1, d)
      BY <1>3 DEF add_order_unchecked
    <2>5. out.res = "err" \/ out = [graph |-> h, res |-> "ok"]
      <3> HIDE DEF g1
      <3> QED BY <2>3, <2>4, SMTT(40) DEF CheckIncoming
    <2>6. /\ h.known = g.known \cup {d} /\ h.nodes = g1.nodes
          /\ Edges(h) = Edges(g1) /\ h.checked = g1.checked \cup In
      <3>1. In \subseteq g1.pending
        BY DEF Into
      <3> HIDE DEF g1
      <3> QED BY <3>1, <2>2 DEF MarkKnown, Take, Edges
    <2>7. CleanGraph(h)
      <3>1. \A e \in In : e.to = d
        BY DEF Into
      <3> HIDE DEF g1, h, In
      <3>2. \A n \in h.nodes : n \in h.known \/ \E c \in h.known : n \in Refs(c)
        BY <2>1, <2>2, <2>6 DEF CleanGraph
      <3>3. \A e \in Edges(h) : e.from \in h.known /\ e.to \in Refs(e.from)
        BY <2>1, <2>2, <2>6 DEF CleanGraph
      <3>4. \A e \in h.checked : e.to \in h.known
        BY <2>2, <2>6, <3>1
      <3> QED BY <3>2, <3>3, <3>4, Zenon DEF CleanGraph
    <2> HIDE DEF h
    <2> QED BY <2>5, <2>6, <2>7
  <1> QED BY <1>1, <1>2, <1>3, Zenon

(* The roots of a clean, complete graph are determined by what it stored,  *)
(* so two of them that stored the same validate alike.                     *)
LEMMA ValidateAlike ==
    ASSUME NEW g \in Graph, GraphInv(g), CleanGraph(g), validate(g),
           NEW h \in Graph, GraphInv(h), CleanGraph(h),
           h.known = g.known, h.nodes = g.nodes
    PROVE  validate(h)
  <1>1. \A n \in h.nodes : n \in Roots(h) => n \in Roots(g)
    <2> SUFFICES ASSUME NEW n \in h.nodes, n \notin Roots(g)
                 PROVE  \E f \in Edges(h) : f.to = n
      BY DEF Roots, Into
    <2>1. PICK e \in Edges(g) : e.to = n
      BY DEF Roots, Into
    <2>2. e.from \in h.known /\ n \in Refs(e.from)
      BY <2>1 DEF CleanGraph
    <2>3. PICK i \in DOMAIN Entries[e.from] : Entries[e.from][i].digest = n
      BY <2>2 DEF Refs
    <2> QED BY <2>2, <2>3 DEF GraphInv
  <1>2. Roots(h) \subseteq Roots(g)
    BY <1>1 DEF Roots
  <1> QED BY <1>2, Zenon DEF validate

-----------------------------------------------------------------------------
(* Every step of a client is a step of the near service, or leaves it      *)
(* alone: the Cache is one more user of a DirectoryService.                *)
LEMMA ClientIsService ==
    ASSUME NEW c \in Clients, CacheClient(c)
    PROVE  [Next]_vars
  <1>1. c \in Putters /\ c \in Readers
    BY ClientsAssumption
  <1>2. CASE GetNear(c) \/ FarFails(c) \/ FarEnds(c) \/ Cancel(c)
    BY <1>2, Zenon DEF GetNear, FarFails, FarEnds, Cancel
  <1>3. CASE RecursiveNear(c) \/ NearClose(c) \/ NearFails(c)
    BY <1>1, <1>3, Zenon DEF RecursiveNear, NearClose, NearFails, Next, PutterNext, ReaderNext
  <1>4. CASE \E d \in Dirs : NearStream(c, d) \/ Receive(c, d) \/ NearPut(c, d) \/ NearStore(c, d)
    BY <1>1, <1>4, Zenon
    DEF NearStream, Receive, NearPut, NearStore, Next, PutterNext, ReaderNext
  <1> QED BY <1>2, <1>3, <1>4 DEF CacheClient

(* What a step of the near service on behalf of c leaves alone.            *)
NearFrame(c) ==
    /\ db \subseteq db' /\ root' = root
    /\ \A q \in Clients \ {c} : /\ graph'[q] = graph[q] /\ pc'[q] = pc[q]
                                  /\ rejected'[q] = rejected[q]

(* A step of a client leaves what the near store keeps for the others      *)
(* alone.                                                                  *)
LEMMA NearFrameHolds ==
    ASSUME TypeOK, NEW c \in Clients,
           \/ UNCHANGED vars
           \/ Close(c) \/ StoreFails(c) \/ Traverse(c) \/ LookupFails(c)
           \/ \E d \in Dirs : Put(c, d) \/ StoreOne(c, d) \/ TraverseStep(c, d)
    PROVE  NearFrame(c)
  <1> USE ClientsAssumption DEF NearFrame, TypeOK
  <1>1. CASE UNCHANGED vars
    BY <1>1, Zenon DEF vars
  <1>2. CASE Close(c) \/ StoreFails(c)
    BY <1>2, Zenon DEF Close, StoreFails, rvars
  <1>3. CASE Traverse(c) \/ LookupFails(c)
    BY <1>3, Zenon DEF Traverse, LookupFails, pvars
  <1>4. ASSUME NEW d \in Dirs, Put(c, d) PROVE NearFrame(c)
    BY <1>4, Zenon DEF Put, rvars
  <1>5. ASSUME NEW d \in Dirs, StoreOne(c, d) PROVE NearFrame(c)
    BY <1>5, Zenon DEF StoreOne, rvars
  <1>6. ASSUME NEW d \in Dirs, TraverseStep(c, d) PROVE NearFrame(c)
    BY <1>6, Zenon DEF TraverseStep, pvars
  <1> QED BY <1>1, <1>2, <1>3, <1>4, <1>5, <1>6, Zenon

(* What a step of c leaves alone in the other requests.                    *)
CacheFrame(c) ==
    \A q \in Clients \ {c} : /\ cpc'[q] = cpc[q] /\ copy'[q] = copy[q]
                             /\ got'[q] = got[q] /\ rest'[q] = rest[q]
                             /\ answer'[q] = answer[q]

(* A step of a client leaves the other clients' requests alone.            *)
LEMMA FramesHold ==
    ASSUME CacheInv, NEW c \in Clients, CacheClient(c)
    PROVE  NearFrame(c) /\ CacheFrame(c)
  <1> USE DEF CacheFrame, CacheTypeOK, Goto, Answer, StartCopy
  <1>0. TypeOK /\ CacheTypeOK
    BY Zenon DEF CacheInv, IInv
  <1>1. CASE GetNear(c) \/ FarFails(c) \/ FarEnds(c) \/ Cancel(c)
    BY <1>0, <1>1, NearFrameHolds, Zenon DEF GetNear, FarFails, FarEnds, Cancel
  <1>2. CASE RecursiveNear(c) \/ NearClose(c) \/ NearFails(c)
    BY <1>0, <1>2, NearFrameHolds, SMTT(40) DEF RecursiveNear, NearClose, NearFails
  <1>3. ASSUME NEW d \in Dirs, NearStream(c, d) \/ NearPut(c, d) \/ NearStore(c, d)
        PROVE  NearFrame(c) /\ CacheFrame(c)
    BY <1>0, <1>3, NearFrameHolds, Zenon DEF NearStream, NearPut, NearStore
  <1>4. ASSUME NEW d \in Dirs, Receive(c, d)
        PROVE  NearFrame(c) /\ CacheFrame(c)
    BY <1>0, <1>4, NearFrameHolds, Zenon DEF Receive
  <1> QED BY <1>1, <1>2, <1>3, <1>4, Zenon DEF CacheClient

(* The outcomes of the root-to-leaves validator are graphs.                *)
LEMMA ReceivedType ==
    ASSUME NEW g \in Graph, NEW d \in Dirs, NEW out \in RootToLeaves_add(g, d)
    PROVE  out.graph \in Graph
  <1>1. CASE ~digest_allowed(g, d)
    BY <1>1, SMTT(40) DEF RootToLeaves_add
  <1>2. CASE digest_allowed(g, d)
    <2> DEFINE order == g.order \cup Refs(d) \cup (IF g.order = {} THEN {d} ELSE {})
    <2>1. order \in SUBSET Dirs
      BY RefsType, Zenon DEF Graph
    <2>2. out \in add_order_unchecked(WithOrder(g, order), d)
      BY <1>2, Zenon DEF RootToLeaves_add
    <2> HIDE DEF order
    <2> QED BY <2>1, <2>2, OrderIrrelevant, AddOutcome
  <1> QED BY <1>1, <1>2, Zenon

(* Type correctness of a step of the Cache.                                *)
LEMMA CacheTypes ==
    ASSUME CacheInv, NEW c \in Clients, CacheClient(c)
    PROVE  CacheTypeOK'
  <1> USE DEF CacheTypeOK, Goto, Answer, CachePc, Answers
  <1>0. TypeOK /\ CacheTypeOK /\ c \in Readers
    BY ClientsAssumption, Zenon DEF CacheInv, IInv
  <1>1. StartCopy(c) => copy' \in [Clients -> Graph]
    <2>1. root[c] \in Dirs
      BY <1>0, Zenon DEF TypeOK
    <2>2. EmptyGraph({root[c]}) \in Graph
      BY <2>1, Zenon DEF EmptyGraph, Graph
    <2> QED BY <1>0, <2>2, Zenon DEF StartCopy
  <1>2. CASE GetNear(c) \/ FarFails(c) \/ Cancel(c)
    BY <1>0, <1>1, <1>2, Zenon DEF GetNear, FarFails, Cancel
  <1>3. CASE FarEnds(c)
    <2>1. Drained(copy[c]) \in SUBSET Dirs
      BY <1>0, ZenonT(40) DEF Drained, Graph
    <2> QED BY <1>0, <1>3, <2>1, Zenon DEF FarEnds
  <1>4. CASE RecursiveNear(c) \/ NearClose(c) \/ NearFails(c)
    BY <1>0, <1>4, ZenonT(40) DEF RecursiveNear, NearClose, NearFails
  <1>5. ASSUME NEW d \in Dirs, NearStream(c, d) PROVE CacheTypeOK'
    BY <1>0, <1>1, <1>5, ZenonT(40) DEF NearStream
  <1>6. ASSUME NEW d \in Dirs, NearPut(c, d) \/ NearStore(c, d) PROVE CacheTypeOK'
    BY <1>0, <1>6, ZenonT(40) DEF NearPut, NearStore
  <1>7. ASSUME NEW d \in Dirs, Receive(c, d) PROVE CacheTypeOK'
    <2>1. PICK out \in RootToLeaves_add(copy[c], d) : copy' = [copy EXCEPT ![c] = out.graph]
      BY <1>7, Zenon DEF Receive
    <2>2. copy' \in [Clients -> Graph]
      BY <1>0, <2>1, ReceivedType, Zenon
    <2>3. got' = got \/ got' = [got EXCEPT ![c] = Append(got[c], d)]
      BY <1>7 DEF Receive
    <2>4. Append(got[c], d) \in Seq(Dirs)
      <3>1. got[c] \in Seq(Dirs)
        BY <1>0, Zenon
      <3> QED BY <3>1
    <2>5. got' \in [Clients -> Seq(Dirs)]
      BY <1>0, <2>3, <2>4, Zenon
    <2> QED BY <1>0, <1>7, <2>2, <2>5, Zenon DEF Receive
  <1> QED BY <1>2, <1>3, <1>4, <1>5, <1>6, <1>7, Zenon DEF CacheClient

(* A step of c keeps the invariant if it keeps the part of c: the others   *)
(* rely on their own state, and on what is in near.                        *)
LEMMA ClientStep ==
    ASSUME CacheInv, NEW c \in Clients, CacheClient(c), ClientInv(c)'
    PROVE  CacheInv'
  <1>1. IInv'
    BY ClientIsService, NextIInv DEF CacheInv
  <1> NearFrame(c) /\ CacheFrame(c) /\ CacheTypeOK'
    BY FramesHold, CacheTypes, Zenon
  <1>2. ASSUME NEW q \in Clients \ {c} PROVE ClientInv(q)'
    <2>1. ClientInv(q)
      BY SMTT(40) DEF CacheInv
    <2>2. CopyInv(q) => CopyInv(q)'
      BY SMTT(40) DEF CopyInv, NearFrame, CacheFrame
    <2>3. Refilled(q) => Refilled(q)'
      BY Zenon DEF Refilled, NearFrame, CacheFrame
    <2>4. Whole(q) => Whole(q)'
      BY SMTT(40) DEF Whole, NearFrame, CacheFrame
    <2>5. Untouched(q) => Untouched(q)'
      BY DEF Untouched, NearFrame
    <2> QED BY <2>1, <2>2, <2>3, <2>4, <2>5, Zenon DEF ClientInv, NearFrame, CacheFrame
  <1> QED BY <1>1, <1>2 DEF CacheInv

-----------------------------------------------------------------------------
(* A request that ends with an error has nothing left to promise.          *)
LEMMA EndsBadly ==
    ASSUME NEW c \in Clients, cpc'[c] = "done",
           answer'[c] \notin {"some", "near_rejects", "panic"}
    PROVE  ClientInv(c)'
  BY SMTT(40) DEF ClientInv

(* The copy of a request that starts to ask far.                           *)
LEMMA CopyStarts ==
    ASSUME CacheInv, NEW c \in Clients, got'[c] = <<>>, root' = root,
           copy'[c] = EmptyGraph({root[c]})
    PROVE  CopyInv(c)'
  <1> DEFINE g == EmptyGraph({root[c]})
  <1>1. /\ g.order = {root[c]} /\ g.nodes = {} /\ g.known = {} /\ g.pending = {} /\ g.checked = {}
    BY Zenon DEF EmptyGraph
  <1> HIDE DEF g
  <1>2. GraphInv(g) /\ CleanGraph(g)
    BY <1>1, Zenon DEF GraphInv, CleanGraph, Edges
  <1>3. RootFirst(<<>>, root[c]) /\ DOMAIN <<>> = {}
    BY DEF RootFirst
  <1>4. copy'[c] = g
    BY DEF g
  <1> QED BY <1>1, <1>2, <1>3, <1>4, Zenon DEF CopyInv

(* get() and get_recursive() asking near.                                  *)
LEMMA NearInv ==
    ASSUME CacheInv, NEW c \in Clients,
           GetNear(c) \/ RecursiveNear(c) \/ \E d \in Dirs : NearStream(c, d)
    PROVE  ClientInv(c)'
  <1>0. /\ TypeOK /\ CacheTypeOK /\ IInv /\ ClientInv(c) /\ ReaderInv(c)
        /\ c \in Readers /\ c \in Putters
    BY ClientsAssumption, Zenon DEF CacheInv, IInv
  <1>1. /\ cpc[c] \in {"idle", "near"} /\ got' = got /\ root' = root
        /\ graph' = graph /\ pc' = pc /\ rejected' = rejected
    BY SMTT(40) DEF GetNear, RecursiveNear, NearStream, vars, Traverse, TraverseStep, pvars
  <1>2. got[c] = <<>> /\ answer[c] = "" /\ Untouched(c)' /\ Whole(c)'
    <2>1. got[c] = <<>> /\ answer[c] = "" /\ Untouched(c)
      BY <1>0, <1>1, Zenon DEF ClientInv
    <2>2. Untouched(c)'
      BY <1>1, <2>1, Zenon DEF Untouched
    <2>3. got'[c] = <<>> /\ DOMAIN got'[c] = {}
      BY <1>1, <2>1, NothingReceived, Zenon
    <2>4. Whole(c)'
      BY <2>3, SMTT(40) DEF Whole, RootFirst
    <2> QED BY <2>1, <2>2, <2>4, ZenonT(40)
  <1>3. CASE cpc'[c] = "near" /\ answer' = answer
    BY <1>1, <1>2, <1>3, ZenonT(40) DEF ClientInv
  <1>4. CASE cpc'[c] = "far" /\ answer' = answer /\ copy'[c] = EmptyGraph({root[c]})
    BY <1>1, <1>2, <1>4, CopyStarts, ZenonT(40) DEF ClientInv
  <1>5. CASE cpc'[c] = "done" /\ answer'[c] = "some" /\ root[c] \in db'
    BY <1>1, <1>2, <1>5, Zenon DEF ClientInv
  <1>6. CASE cpc'[c] = "done" /\ answer'[c] = "near_error"
    BY <1>6, EndsBadly, Zenon
  <1>7. CASE GetNear(c)
    BY <1>0, <1>4, <1>5, <1>7, Zenon DEF GetNear, Goto, Answer, StartCopy, CacheTypeOK, vars
  <1>8. CASE RecursiveNear(c)
    BY <1>0, <1>3, <1>8, SMTT(40) DEF RecursiveNear, Goto, CacheTypeOK
  <1>9. ASSUME NEW d \in Dirs, NearStream(c, d) PROVE ClientInv(c)'
    <2>1. sent'[c] # {} => root[c] \in db'
      <3>1. CASE MissingDirectory(c, d)
        BY <1>0, <1>9, <3>1, ZenonT(40) DEF NearStream, TraverseStep, MissingDirectory, ReaderInv
      <3>2. CASE FoundDirectory(c, d)
        BY <1>0, <1>9, <3>2, ZenonT(40) DEF NearStream, TraverseStep, FoundDirectory, ReaderInv
      <3> QED BY <1>9, <3>1, <3>2, ZenonT(40) DEF NearStream, TraverseStep
    <2> QED BY <1>0, <1>3, <1>4, <1>5, <1>6, <1>9, <2>1, ZenonT(40)
            DEF NearStream, Goto, Answer, StartCopy, CacheTypeOK
  <1> QED BY <1>7, <1>8, <1>9

(* The root-to-leaves validator, from a clean graph: no panic, and what it *)
(* accepts keeps the copy equal to what was received.                      *)
LEMMA ReceiveOutcome ==
    ASSUME NEW g \in Graph, GraphInv(g), CleanGraph(g), g.order # {}, NEW d \in Dirs,
           NEW out \in RootToLeaves_add(g, d)
    PROVE  /\ out.res # "panic"
           /\ out.res = "ok" => /\ d \in g.order
                                /\ GraphInv(out.graph) /\ CleanGraph(out.graph)
                                /\ out.graph.known = g.known \cup {d}
                                /\ out.graph.order = g.order \cup Refs(d)
  <1>1. CASE ~digest_allowed(g, d)
    <2>1. RootToLeaves_add(g, d) = {[graph |-> g, res |-> "err"]}
      BY <1>1, Zenon DEF RootToLeaves_add
    <2> QED BY <2>1
  <1>2. CASE digest_allowed(g, d)
    <2> DEFINE order == g.order \cup Refs(d)
               g0 == WithOrder(g, order)
    <2>1. order \in SUBSET Dirs
      BY RefsType, Zenon DEF Graph
    <2>2. out \in add_order_unchecked(g0, d) /\ d \in g.order
      BY <1>2, Zenon DEF RootToLeaves_add, digest_allowed
    <2> HIDE DEF order
    <2>3. /\ g0 \in Graph /\ GraphInv(g0) /\ CleanGraph(g0)
          /\ g0.order = order /\ g0.known = g.known
      BY <2>1, OrderIrrelevant, Zenon
    <2> HIDE DEF g0
    <2>4. GraphInv(out.graph) /\ out.graph.order = order
      BY <2>2, <2>3, AddOutcome, GraphInvAdd, SMTT(40) DEF Grew
    <2> QED BY <2>2, <2>3, <2>4, AddClean DEF order
  <1> QED BY <1>1, <1>2, Zenon

(* One directory from far.                                                 *)
LEMMA ReceiveInv ==
    ASSUME CacheInv, NEW c \in Clients, NEW d \in Dirs, Receive(c, d)
    PROVE  ClientInv(c)'
  <1>0. CacheTypeOK /\ ClientInv(c)
    BY SMTT(40) DEF CacheInv
  <1>1. /\ cpc[c] = "far" /\ CopyInv(c) /\ Untouched(c) /\ answer[c] = ""
        /\ got[c] \in Seq(Dirs) /\ copy[c] \in Graph
        /\ root' = root /\ graph' = graph /\ pc' = pc /\ rejected' = rejected
    BY <1>0, ZenonT(40) DEF Receive, ClientInv, CacheTypeOK, vars
  <1>2. PICK out \in RootToLeaves_add(copy[c], d) :
           /\ copy' = [copy EXCEPT ![c] = out.graph]
           /\ \/ out.res = "ok" /\ Goto(c, "far") /\ got' = [got EXCEPT ![c] = Append(@, d)]
              \/ out.res = "err" /\ Answer(c, "bad_stream") /\ UNCHANGED got
              \/ out.res = "panic" /\ Answer(c, "panic") /\ UNCHANGED got
    BY ZenonT(40) DEF Receive
  <1>3. copy'[c] = out.graph
    BY <1>0, <1>2, Zenon DEF CacheTypeOK
  <1>4. /\ out.res # "panic"
        /\ out.res = "ok" => /\ d \in copy[c].order
                             /\ GraphInv(copy'[c]) /\ CleanGraph(copy'[c])
                             /\ copy'[c].known = copy[c].known \cup {d}
                             /\ copy'[c].order = copy[c].order \cup Refs(d)
    <2>1. copy[c] \in Graph /\ GraphInv(copy[c]) /\ CleanGraph(copy[c]) /\ copy[c].order # {}
      BY <1>1, Zenon DEF CopyInv
    <2>2. /\ out.res # "panic"
          /\ out.res = "ok" => /\ d \in copy[c].order
                               /\ GraphInv(out.graph) /\ CleanGraph(out.graph)
                               /\ out.graph.known = copy[c].known \cup {d}
                               /\ out.graph.order = copy[c].order \cup Refs(d)
      BY <2>1, ReceiveOutcome, SMTT(40)
    <2> QED BY <1>3, <2>2, Zenon
  <1>5. CASE out.res = "err"
    BY <1>0, <1>2, <1>5, EndsBadly, Zenon DEF Answer, CacheTypeOK
  <1>6. CASE out.res = "ok"
    <2>1. cpc'[c] = "far" /\ answer' = answer /\ got'[c] = Append(got[c], d)
      BY <1>0, <1>2, <1>6, Zenon DEF Goto, CacheTypeOK
    <2> DEFINE n == Len(got[c]) + 1
    <2>2. /\ n \in Nat /\ n >= 1 /\ DOMAIN got[c] = 1..(n - 1)
          /\ DOMAIN got'[c] = 1..n /\ got'[c][n] = d
          /\ \A i \in 1..(n - 1) : got'[c][i] = got[c][i]
      <3>1. /\ n \in Nat /\ n >= 1 /\ DOMAIN got[c] = 1..(n - 1)
            /\ DOMAIN Append(got[c], d) = 1..n /\ Append(got[c], d)[n] = d
            /\ \A i \in 1..(n - 1) : Append(got[c], d)[i] = got[c][i]
        BY <1>1, OneMore, Zenon
      <3> QED BY <2>1, <3>1, Zenon
    <2> HIDE DEF n
    <2>3. \A x \in copy'[c].known : \E i \in DOMAIN got'[c] : got'[c][i] = x
      <3> SUFFICES ASSUME NEW x \in copy[c].known \cup {d}
                   PROVE  \E i \in 1..n : got'[c][i] = x
        BY <1>4, <1>6, <2>2, Zenon
      <3>1. CASE x = d
        BY <2>2, <3>1, SMTT(40)
      <3>2. CASE x \in copy[c].known
        <4>1. PICK i \in 1..(n - 1) : got[c][i] = x
          BY <1>1, <2>2, <3>2, ZenonT(40) DEF CopyInv
        <4> QED BY <4>1, <2>2, SMTT(40)
      <3> QED BY <3>1, <3>2, Zenon
    <2>4. \A i \in DOMAIN got'[c] : got'[c][i] \in copy'[c].known
      <3> SUFFICES ASSUME NEW i \in 1..n PROVE got'[c][i] \in copy[c].known \cup {d}
        BY <1>4, <1>6, <2>2, Zenon
      <3>1. CASE i = n
        BY <2>2, <3>1, SMTT(40)
      <3>2. CASE i \in 1..(n - 1)
        BY <1>1, <2>2, <3>2, ZenonT(40) DEF CopyInv
      <3> QED BY <2>2, <3>1, <3>2, SMTT(40)
    <2>5. d = root[c] \/ \E s \in copy[c].known : d \in Refs(s)
      BY <1>1, <1>4, <1>6, ZenonT(40) DEF CopyInv
    <2>6. d = root[c] \/ \E j \in 1..(n - 1) : d \in Refs(got[c][j])
      BY <1>1, <2>2, <2>5, ZenonT(40) DEF CopyInv
    <2>7. RootFirst(got'[c], root[c])
      <3>1. got'[c][1] = root[c]
        <4>1. CASE n = 1
          BY <2>2, <2>6, <4>1, SMTT(40)
        <4>2. CASE n > 1
          <5>1. got[c] # <<>> /\ 1 \in 1..(n - 1)
            BY <2>2, <4>2, SMTT(40)
          <5> QED BY <5>1, <1>1, <2>2, Zenon DEF CopyInv, RootFirst
        <4> QED BY <2>2, <4>1, <4>2, SMTT(40)
      <3>2. ASSUME NEW i \in 1..n
            PROVE  got'[c][i] = root[c] \/ \E j \in 1..(i - 1) : got'[c][i] \in Refs(got'[c][j])
        <4>1. CASE i = n
          BY <2>2, <2>6, <4>1, Zenon
        <4>2. CASE i \in 1..(n - 1)
          <5>1. got[c][i] = root[c] \/ \E j \in 1..(i - 1) : got[c][i] \in Refs(got[c][j])
            BY <1>1, <2>2, <4>2, ZenonT(40) DEF CopyInv, RootFirst
          <5>2. \A j \in 1..(i - 1) : got'[c][j] = got[c][j]
            BY <2>2, <4>2, SMTT(40)
          <5> QED BY <5>1, <5>2, <2>2, <4>2, Zenon
        <4> QED BY <2>2, <4>1, <4>2, SMTT(40)
      <3> QED BY <2>2, <3>1, <3>2, Zenon DEF RootFirst
    <2>8. /\ root[c] \in copy'[c].order
          /\ \A x \in copy'[c].order : x = root[c] \/ \E s \in copy'[c].known : x \in Refs(s)
      BY <1>1, <1>4, <1>6, ZenonT(40) DEF CopyInv
    <2>9. CopyInv(c)'
      BY <1>1, <1>4, <1>6, <2>3, <2>4, <2>7, <2>8, ZenonT(40) DEF CopyInv
    <2>10. Untouched(c)'
      BY <1>1, Zenon DEF Untouched
    <2> QED BY <1>1, <2>1, <2>9, <2>10, Zenon DEF ClientInv
  <1> QED BY <1>2, <1>4, <1>5, <1>6

(* The end of far's stream: all that was received is drained.              *)
LEMMA FarEndsInv ==
    ASSUME CacheInv, NEW c \in Clients, FarEnds(c)
    PROVE  ClientInv(c)'
  <1>0. CacheTypeOK /\ ClientInv(c)
    BY SMTT(40) DEF CacheInv
  <1>1. /\ cpc[c] = "far" /\ CopyInv(c) /\ Untouched(c) /\ answer[c] = "" /\ copy[c] \in Graph
        /\ root' = root /\ graph' = graph /\ pc' = pc /\ rejected' = rejected
        /\ copy' = copy /\ got' = got
    BY <1>0, ZenonT(40) DEF FarEnds, ClientInv, CacheTypeOK, vars
  <1>2. CASE validate(copy[c])
    <2>1. cpc'[c] = "putting" /\ answer' = answer /\ rest'[c] = Drained(copy[c])
      BY <1>0, <1>2, SMTT(40) DEF FarEnds, Goto, CacheTypeOK
    <2>2. rest'[c] = copy[c].known
      BY <1>1, <1>2, <2>1, DrainedAll, ZenonT(40) DEF validate, CopyInv
    <2>3. CopyInv(c)'
      BY <1>1, Zenon DEF CopyInv
    <2>4. graph'[c] = EmptyGraph({}) /\ pc'[c] = "open" /\ rejected'[c] = FALSE
      BY <1>1, Zenon DEF Untouched
    <2>5. Refilled(c)'
      <3>1. /\ CleanGraph(EmptyGraph({}))
            /\ EmptyGraph({}).order = {} /\ EmptyGraph({}).known = {}
        BY Zenon DEF EmptyGraph, CleanGraph, Edges
      <3> QED BY <1>1, <1>2, <2>2, <2>4, <3>1, ZenonT(40) DEF Refilled
    <2> QED BY <1>1, <2>1, <2>3, <2>4, <2>5, Zenon DEF ClientInv
  <1>3. CASE ~validate(copy[c])
    BY <1>0, <1>3, EndsBadly, SMTT(40) DEF FarEnds, Answer, CacheTypeOK
  <1> QED BY <1>2, <1>3

(* A drained directory is accepted by the near putter: what it refers to   *)
(* was put before it, with the sizes it announces, and nothing put before  *)
(* refers to it.                                                           *)
LEMMA NearPutInv ==
    ASSUME CacheInv, NEW c \in Clients, NEW d \in Dirs, NearPut(c, d)
    PROVE  ClientInv(c)'
  <1> DEFINE g == graph[c]
             k == copy[c].known
             g0 == WithOrder(g, g.order \cup {d})
  <1>0. TypeOK /\ CacheTypeOK /\ ClientInv(c) /\ PutterInv(c) /\ c \in Putters
    BY ClientsAssumption, SMTT(40) DEF CacheInv, IInv
  <1>1. /\ cpc[c] = "putting" /\ answer[c] = "" /\ pc[c] = "open" /\ rejected[c] = FALSE
        /\ CopyInv(c) /\ Refilled(c) /\ d \in rest[c] /\ Refs(d) \cap rest[c] = {}
        /\ root' = root /\ copy' = copy /\ got' = got
    BY <1>0, ZenonT(40) DEF NearPut, ClientInv, Put, rvars
  <1>2. g \in Graph /\ GraphInv(g) /\ OrderInv(g) /\ CleanGraph(g) /\ copy[c] \in Graph
    BY <1>0, <1>1, ZenonT(40) DEF TypeOK, CacheTypeOK, PutterInv, Refilled
  <1>3. /\ GraphInv(copy[c]) /\ copy[c].nodes = k /\ rest[c] \subseteq k
        /\ g.order = k \ rest[c] /\ g.known = k \ rest[c]
    BY <1>1, ZenonT(40) DEF CopyInv, Refilled, validate
  <1>4. PICK out \in LeavesToRoot_add(g, d) :
           /\ graph' = [graph EXCEPT ![c] = out.graph]
           /\ rejected' = [rejected EXCEPT ![c] = @ \/ out.res # "ok"]
           /\ pc' = [pc EXCEPT ![c] = IF out.res = "panic" THEN "panicked" ELSE @]
    BY ZenonT(40) DEF NearPut, Put
  <1> HIDE DEF g
  <1>5. d \in k /\ d \notin g.order /\ Refs(d) \subseteq g.order
    BY <1>1, <1>3, Zenon DEF GraphInv
  <1>6. out \in add_order_unchecked(g0, d)
    BY <1>5, ZenonT(40) DEF LeavesToRoot_add, LeavesToRoot_allowed
  <1>7. /\ g0 \in Graph /\ g0.order = g.order \cup {d} /\ g0.known = g.known
        /\ Edges(g0) = Edges(g) /\ CleanGraph(g0)
    <2>1. g.order \cup {d} \in SUBSET Dirs
      BY <1>2, ZenonT(40) DEF Graph
    <2> QED BY <1>2, <2>1, OrderIrrelevant, ZenonT(40)
  <1> HIDE DEF g0
  <1>8. Into(Edges(g0), d) = {}
    BY <1>2, <1>5, <1>7, Zenon DEF OrderInv, Into
  <1>9. BadChildren(g0, d) = {}
    <2>1. \A i \in DOMAIN Entries[d] : Entries[d][i].digest \in Refs(d)
      BY SMTT(40) DEF Refs
    <2>2. \A i \in DOMAIN Entries[d] : check_edge(Entries[d][i].size, Entries[d][i].digest)
      BY <1>3, <1>5, <2>1, ZenonT(40) DEF GraphInv
    <2> QED BY <2>2, Zenon DEF BadChildren
  <1>10. out.res = "ok"
    BY <1>6, <1>7, <1>8, <1>9, AddUnreferenced, ZenonT(40)
  <1>11. CleanGraph(out.graph) /\ out.graph.known = g.known \cup {d}
    <2>1. CleanGraph(out.graph) /\ out.graph.known = g0.known \cup {d}
      BY <1>6, <1>7, <1>10, AddClean, ZenonT(60)
    <2> QED BY <1>7, <2>1, Zenon
  <1>12. out.graph.order = g.order \cup {d}
    <2>1. Grew(g0, d, out.graph)
      BY <1>6, <1>7, AddOutcome, Zenon
    <2> QED BY <1>7, <2>1, Zenon DEF Grew
  <1>13. graph'[c] = out.graph /\ rejected'[c] = FALSE /\ pc'[c] = "open"
    BY <1>0, <1>1, <1>4, <1>10, ZenonT(40) DEF TypeOK
  <1>14. rest'[c] = rest[c] \ {d} /\ cpc'[c] = "putting" /\ answer' = answer
    BY <1>0, <1>13, ZenonT(40) DEF NearPut, Goto, CacheTypeOK
  <1>15. CopyInv(c)'
    BY <1>1, ZenonT(40) DEF CopyInv
  <1>16. Refilled(c)'
    <2>1. validate(copy'[c]) /\ copy'[c].known = k
      BY <1>1, ZenonT(40) DEF Refilled
    <2>2. graph'[c].order = k \ rest'[c] /\ graph'[c].known = k \ rest'[c]
      <3>1. graph'[c].order = g.order \cup {d} /\ graph'[c].known = g.known \cup {d}
        BY <1>11, <1>12, <1>13, Zenon
      <3> HIDE DEF k
      <3> QED BY <1>3, <1>5, <1>14, <3>1
    <2> QED BY <1>3, <1>11, <1>13, <1>14, <2>1, <2>2, ZenonT(40) DEF Refilled
  <1> QED BY <1>1, <1>13, <1>14, <1>15, <1>16, Zenon DEF ClientInv

(* The near putter's close(): its graph validates like the copy did.       *)
LEMMA NearCloseInv ==
    ASSUME CacheInv, NEW c \in Clients, NearClose(c)
    PROVE  ClientInv(c)'
  <1> DEFINE g == graph[c]
             k == copy[c].known
  <1>0. TypeOK /\ CacheTypeOK /\ ClientInv(c) /\ PutterInv(c) /\ c \in Putters
    BY ClientsAssumption DEF CacheInv, IInv
  <1>1. /\ cpc[c] = "putting" /\ rest[c] = {} /\ answer[c] = "" /\ CopyInv(c) /\ Refilled(c)
        /\ root' = root /\ copy' = copy /\ got' = got /\ graph' = graph
    BY <1>0, ZenonT(40) DEF NearClose, ClientInv, Close, rvars
  <1>2. g \in Graph /\ GraphInv(g) /\ OrderInv(g) /\ CleanGraph(g) /\ copy[c] \in Graph
    BY <1>0, <1>1, ZenonT(40) DEF TypeOK, CacheTypeOK, PutterInv, Refilled
  <1>3. /\ GraphInv(copy[c]) /\ CleanGraph(copy[c]) /\ validate(copy[c]) /\ copy[c].nodes = k
        /\ g.order = k /\ g.known = k
    BY <1>1, ZenonT(40) DEF CopyInv, Refilled, validate
  <1>4. g.nodes = k
    <2>0. k \subseteq g.nodes /\ \A n \in g.nodes : n \in k \/ \E d \in k : n \in Refs(d)
      BY <1>2, <1>3, Zenon DEF GraphInv, CleanGraph
    <2> SUFFICES ASSUME NEW d \in k, NEW n \in Refs(d) PROVE n \in k
      <3> HIDE DEF g, k
      <3> QED BY <2>0, Zenon
    <2>1. PICK i \in DOMAIN Entries[d] : Entries[d][i].digest = n
      BY SMTT(40) DEF Refs
    <2>2. PICK e \in Edges(g) : e.to = n
      <3>1. d \in g.known
        BY <1>3
      <3> HIDE DEF g, k
      <3> QED BY <1>2, <2>1, <3>1, Zenon DEF GraphInv
    <2> QED BY <1>2, <1>3, <2>2, ZenonT(40) DEF OrderInv
  <1>5. validate(g)
    BY <1>2, <1>3, <1>4, ValidateAlike, Zenon
  <1>6. Drained(g) = g.nodes
    BY <1>2, DrainedAll, Zenon
  <1>7. CASE g.nodes = {}
    <2>1. pc'[c] = "failed"
      BY <1>0, <1>6, <1>7, ZenonT(40) DEF NearClose, Close, TypeOK
    <2> QED BY <1>0, <1>7, <2>1, EndsBadly, Zenon DEF NearClose, Answer, CacheTypeOK
  <1>8. CASE g.nodes # {}
    <2>1. pc'[c] = "closing"
      BY <1>0, <1>5, <1>6, <1>8, ZenonT(40) DEF NearClose, Close, TypeOK
    <2>2. cpc'[c] = "closing" /\ answer' = answer
      BY <1>0, <2>1, SMTT(40) DEF NearClose, Goto, CacheTypeOK
    <2>3. root[c] \in k
      <3>1. PICK i \in DOMAIN got[c] : TRUE
        BY <1>1, <1>4, <1>8, Zenon DEF CopyInv
      <3>2. got[c] # <<>> /\ 1 \in DOMAIN got[c]
        <4>1. got[c] \in Seq(Dirs)
          BY <1>0, SMTT(40) DEF CacheTypeOK
        <4> QED BY <4>1, <3>1
      <3> QED BY <1>1, <3>2, ZenonT(40) DEF CopyInv, RootFirst
    <2>4. ASSUME NEW i \in DOMAIN got[c], NEW d \in Refs(got[c][i])
          PROVE  \E j \in DOMAIN got[c] : got[c][j] = d
      <3>1. got[c][i] \in k
        BY <1>1, ZenonT(40) DEF CopyInv
      <3>2. d \in k
        BY <1>3, <3>1, ZenonT(40) DEF GraphInv
      <3> QED BY <1>1, <3>2, ZenonT(40) DEF CopyInv
    <2>5. Whole(c)'
      BY <1>1, <2>4, Zenon DEF Whole, CopyInv
    <2> QED BY <1>1, <1>4, <2>1, <2>2, <2>3, <2>5, ZenonT(40) DEF ClientInv
  <1> QED BY <1>7, <1>8

(* The stores of close(), and the ways a request can be cut short.         *)
LEMMA RestInv ==
    ASSUME CacheInv, NEW c \in Clients,
           \/ FarFails(c) \/ NearFails(c) \/ Cancel(c)
           \/ \E d \in Dirs : NearStore(c, d)
    PROVE  ClientInv(c)'
  <1>0. TypeOK /\ IInv /\ CacheTypeOK /\ ClientInv(c) /\ c \in Putters
    BY ClientsAssumption, SMTT(40) DEF CacheInv, IInv
  <1>1. CASE FarFails(c) \/ NearFails(c) \/ Cancel(c)
    BY <1>0, <1>1, EndsBadly, Zenon DEF FarFails, NearFails, Cancel, Answer, CacheTypeOK
  <1>2. ASSUME NEW d \in Dirs, NearStore(c, d) PROVE ClientInv(c)'
    <2>1. /\ cpc[c] = "closing" /\ answer[c] = "" /\ root[c] \in graph[c].nodes /\ Whole(c)
          /\ root' = root /\ got' = got /\ graph' = graph
          /\ pc'[c] = "done" \/ pc'[c] = "closing"
      BY <1>0, <1>2, ZenonT(40) DEF NearStore, ClientInv, StoreOne, rvars, TypeOK
    <2>2. Whole(c)'
      BY <2>1, ZenonT(40) DEF Whole
    <2>3. CASE pc'[c] = "done"
      <3>1. cpc'[c] = "done" /\ answer'[c] = "some"
        BY <1>0, <1>2, <2>3, Zenon DEF NearStore, Answer, CacheTypeOK
      <3>2. PutterInv(c)'
        BY <1>0, <1>2, StoreIInv, ZenonT(40) DEF NearStore, IInv
      <3>3. root[c] \in db'
        BY <2>1, <2>3, <3>2, ZenonT(40) DEF PutterInv
      <3> QED BY <2>1, <2>2, <3>1, <3>3, ZenonT(40) DEF ClientInv
    <2>4. CASE pc'[c] = "closing"
      <3>1. cpc'[c] = "closing" /\ answer' = answer
        BY <1>0, <1>2, <2>4 DEF NearStore, Goto, CacheTypeOK
      <3> QED BY <2>1, <2>2, <2>4, <3>1, ZenonT(40) DEF ClientInv
    <2> QED BY <2>1, <2>3, <2>4, Zenon
  <1> QED BY <1>1, <1>2, Zenon

-----------------------------------------------------------------------------
(* Before the first request the invariant holds.                           *)
LEMMA InitCacheInv == CacheInit => CacheInv
  <1> SUFFICES ASSUME CacheInit PROVE CacheInv
    BY Zenon
  <1>1. IInv
    BY InitIInv, Zenon DEF CacheInit
  <1>2. EmptyGraph({}) \in Graph
    BY Zenon DEF EmptyGraph, Graph
  <1>3. CacheTypeOK
    <2>1. <<>> \in Seq(Dirs)
      BY SMTT(40)
    <2> QED BY <1>2, <2>1, Zenon DEF CacheInit, CacheTypeOK, CachePc, Answers
  <1>4. ASSUME NEW c \in Clients PROVE ClientInv(c)
    <2>1. Untouched(c)
      BY ClientsAssumption, Zenon DEF CacheInit, Init, Untouched
    <2> QED BY <2>1, Zenon DEF CacheInit, ClientInv
  <1> QED BY <1>1, <1>3, <1>4 DEF CacheInv

(* A step that changes nothing keeps the invariant.                        *)
LEMMA StutterCacheInv == CacheInv /\ UNCHANGED allvars => CacheInv'
  <1> SUFFICES ASSUME CacheInv, UNCHANGED allvars PROVE CacheInv'
    OBVIOUS
  <1>1. IInv'
    BY StutterIInv, Zenon DEF CacheInv, allvars
  <1> USE DEF allvars, vars, cvars
  <1>2. CacheTypeOK'
    BY SMTT(40) DEF CacheInv, CacheTypeOK
  <1>3. ASSUME NEW c \in Clients PROVE ClientInv(c)'
    <2>1. ClientInv(c)
      BY DEF CacheInv
    <2> QED BY <2>1, Zenon DEF ClientInv, CopyInv, Refilled, Whole, Untouched
  <1> QED BY <1>1, <1>2, <1>3 DEF CacheInv

(* CacheInv is inductive: one case per action of a client.                 *)
LEMMA NextCacheInv == CacheInv /\ [CacheNext]_allvars => CacheInv'
  <1> SUFFICES ASSUME CacheInv, CacheNext PROVE CacheInv'
    BY StutterCacheInv
  <1>1. PICK c \in Clients : CacheClient(c)
    BY Zenon DEF CacheNext
  <1>2. ClientInv(c)'
    BY <1>1, NearInv, ReceiveInv, FarEndsInv, NearPutInv, NearCloseInv, RestInv, Zenon
    DEF CacheClient
  <1> QED BY <1>1, <1>2, ClientStep

(* The near store behind a Cache is a DirectoryService: the requests of    *)
(* combinators.rs use it as any putters and readers would.                 *)
THEOREM CacheUsesService == CacheSpec => Spec
  <1>1. CacheInit => Init
    BY Zenon DEF CacheInit
  <1>2. [CacheNext]_allvars => [Next]_vars
    BY ClientIsService DEF CacheNext, allvars
  <1> QED BY <1>1, <1>2, PTL DEF CacheSpec, Spec

(* Whatever far sends, fails or leaves out, and however requests race or   *)
(* are dropped: near is closed, an answer is a whole closure, and what     *)
(* passed the Cache's own validation is never refused by the near putter.  *)
THEOREM CacheCorrect == CacheSpec => []CacheSound
  <1>1. CacheInv => CacheSound
    <2> SUFFICES ASSUME CacheInv PROVE CacheSound
      OBVIOUS
    <2>1. NearClosed
      BY SMTT(40) DEF CacheInv, IInv, StoreClosed, NearClosed
    <2>2. ASSUME NEW c \in Clients, answer[c] = "some"
          PROVE  root[c] \in db /\ Whole(c)
      BY <2>2, ZenonT(40) DEF CacheInv, ClientInv
    <2>3. AnswerComplete
      BY <2>2, Zenon DEF AnswerComplete, Whole, RootFirst
    <2>4. RefillAccepted
      BY Zenon DEF CacheInv, ClientInv, RefillAccepted
    <2> QED BY <2>1, <2>3, <2>4 DEF CacheSound
  <1> QED BY <1>1, InitCacheInv, NextCacheInv, PTL DEF CacheSpec
=============================================================================
