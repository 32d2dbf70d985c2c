------------------------ MODULE DirectoryGrpcProofs ------------------------
(***************************************************************************)
(* For any number of uploads and downloads over gRPC, wherever connections *)
(* break: an acknowledged upload is stored, a download is the whole        *)
(* closure of its root, and what was acknowledged is found.                *)
(***************************************************************************)
EXTENDS DirectoryGrpc, DirectoryServiceProofs

UploadTypeOK ==
    /\ cput \in [Uploaders -> {"open", "closing", "closed_ok", "closed_err", "dropped"}]
    /\ accepted \in [Uploaders -> Seq(Dirs)]
    /\ chan \in [Uploaders -> Seq(Dirs)]
    /\ task \in [Uploaders -> {"running", "ok", "err"}]
    /\ srv \in [Uploaders -> {"receiving", "forwarding", "closing", "ok", "err", "aborted"}]
    /\ sgraph \in [Uploaders -> Graph]
    /\ rest \in [Uploaders -> SUBSET Dirs]

DownloadTypeOK ==
    /\ cget \in [Readers -> {"idle", "receiving", "complete", "empty", "premature", "unexpected", "error"}]
    /\ down \in [Readers -> Seq(Dirs)]
    /\ expected \in [Readers -> SUBSET Dirs]
    /\ received \in [Readers -> SUBSET Dirs]
    /\ promised \in [Readers -> BOOLEAN]

(* Where every directory whose put() returned Ok is: in the channel, in    *)
(* the handler's graph, among the drained ones, with the backend's putter, *)
(* and at last in the store.                                               *)
AcceptedIn(c, S) == \A i \in DOMAIN accepted[c] : accepted[c][i] \in S

InChannel(c) == {chan[c][i] : i \in DOMAIN chan[c]}

UploadData(c) ==
    /\ srv[c] \in {"receiving", "forwarding"} => pc[c] = "open" /\ rejected[c] = FALSE
    /\ srv[c] = "receiving" => /\ GraphInv(sgraph[c]) /\ OrderInv(sgraph[c])
                               /\ AcceptedIn(c, sgraph[c].known \cup InChannel(c))
    /\ srv[c] = "forwarding" => AcceptedIn(c, rest[c] \cup graph[c].known)
    /\ srv[c] = "closing" => pc[c] = "closing" /\ AcceptedIn(c, graph[c].nodes)
    /\ srv[c] = "ok" => AcceptedIn(c, db)

UploadInv(c) ==
    /\ task[c] = "ok" => srv[c] = "ok"
    /\ cput[c] = "closed_ok" => task[c] = "ok"
    /\ srv[c] \in {"forwarding", "closing", "ok"} => cput[c] # "open"
    /\ UploadData(c)

(* What the server sent is received or on its way, once each; it arrives   *)
(* in an order in which it is expected.                                    *)
StreamInv(r) ==
    /\ \A i, j \in DOMAIN down[r] : down[r][i] = down[r][j] => i = j
    /\ \A i \in DOMAIN down[r] : down[r][i] \in sent[r] /\ down[r][i] \notin received[r]
    /\ received[r] \subseteq sent[r]
    /\ \A s \in sent[r] : s \in received[r] \/ \E i \in DOMAIN down[r] : down[r][i] = s
    /\ \A i \in DOMAIN down[r] :
          down[r][i] \in expected[r] \/ \E j \in 1..(i - 1) : down[r][i] \in Refs(down[r][j])

(* What is expected: the root, then what the received directories refer to.*)
ExpectInv(r) ==
    /\ received[r] = {} => expected[r] = {root[r]}
    /\ received[r] # {} => /\ root[r] \in received[r]
                           /\ \A d \in expected[r] : \E s \in received[r] : d \in Refs(s)
    /\ \A s \in received[r] : Refs(s) \subseteq expected[r] \cup received[r]

(* Everything sent is below the root, so nothing sent refers to it.        *)
BelowRoot(r) == \A s \in sent[r] : s = root[r] \/ Depth[root[r]] < Depth[s]

DownloadInv(r) ==
    /\ cget[r] = "idle" => rpc[r] = "idle" /\ down[r] = <<>> /\ received[r] = {}
    /\ rpc[r] = "running" => worklist[r] \cap sent[r] = {}
    /\ BelowRoot(r)
    /\ cget[r] = "receiving" => StreamInv(r) /\ ExpectInv(r)
    /\ cget[r] \notin {"unexpected", "premature"}
    /\ cget[r] = "complete" => /\ root[r] \in received[r]
                               /\ \A d \in received[r] : Refs(d) \subseteq received[r]
    /\ cget[r] = "empty" => received[r] = {} /\ rpc[r] = "done" /\ sent[r] = {}
    /\ promised[r] = TRUE => /\ root[r] \in db
                             /\ cget[r] # "idle"
                             /\ rpc[r] = "done" => sent[r] # {}

GrpcInv ==
    /\ IInv
    /\ UploadTypeOK /\ DownloadTypeOK
    /\ \A c \in Uploaders : UploadInv(c)
    /\ \A r \in Readers : DownloadInv(r)

-----------------------------------------------------------------------------
(* Sequences: the channel and the stream grow at the end and shrink at the *)
(* front.                                                                  *)
LEMMA OneMore ==
    ASSUME NEW s \in Seq(Dirs), NEW d \in Dirs
    PROVE  LET n == Len(s) + 1 IN
              /\ Append(s, d) \in Seq(Dirs)
              /\ n \in Nat /\ n >= 1 /\ DOMAIN s = 1..(n - 1)
              /\ DOMAIN Append(s, d) = 1..n /\ Append(s, d)[n] = d
              /\ \A i \in 1..(n - 1) : Append(s, d)[i] = s[i]
  OBVIOUS

(* Reading the first element leaves the others, in their order.            *)
LEMMA OneLess ==
    ASSUME NEW s \in Seq(Dirs), s # <<>>
    PROVE  LET n == Len(s) IN
              /\ Tail(s) \in Seq(Dirs) /\ Head(s) \in Dirs /\ Head(s) = s[1]
              /\ n \in Nat /\ n >= 1 /\ DOMAIN s = 1..n
              /\ DOMAIN Tail(s) = 1..(n - 1)
              /\ \A i \in 1..(n - 1) : Tail(s)[i] = s[i + 1]
  OBVIOUS

(* An update of a function at one point.                                   *)
LEMMA Updated ==
    ASSUME NEW S, NEW T, NEW f \in [S -> T], NEW x \in S, NEW v \in T
    PROVE  LET g == [f EXCEPT ![x] = v] IN
              g \in [S -> T] /\ g[x] = v /\ \A q \in S \ {x} : g[q] = f[q]
  OBVIOUS

(* What a putter's graph stored it keeps, and a put() that returned Ok     *)
(* stored its directory.                                                   *)
LEMMA PutStores ==
    ASSUME NEW g \in Graph, NEW d \in Dirs, NEW out \in LeavesToRoot_add(g, d)
    PROVE  /\ g.known \subseteq out.graph.known
           /\ out.res = "ok" => d \in out.graph.known
  <1>1. CASE ~LeavesToRoot_allowed(g, d)
    BY <1>1 DEF LeavesToRoot_add
  <1>2. CASE LeavesToRoot_allowed(g, d)
    <2> DEFINE g0 == WithOrder(g, g.order \cup {d})
               g1 == WithChildEdges(g0, d)
    <2>1. g0 \in Graph /\ g0.known = g.known
      BY DEF WithOrder, Graph
    <2>2. out \in add_order_unchecked(g0, d)
      BY <1>2 DEF LeavesToRoot_add
    <2> HIDE DEF g0
    <2>3. g.known \subseteq out.graph.known
      BY <2>1, <2>2, AddOutcome DEF BecameKnown
    <2>4. CASE d \in g0.known
      <3>1. out = [graph |-> g0, res |-> "ok"]
        BY <2>2, <2>4 DEF add_order_unchecked
      <3> QED BY <2>3, <2>4, <3>1
    <2>5. CASE d \notin g0.known /\ BadChildren(g0, d) # {}
      BY <2>2, <2>3, <2>5 DEF add_order_unchecked
    <2>6. CASE d \notin g0.known /\ BadChildren(g0, d) = {}
      <3>1. out \in CheckIncoming(g1, d)
        BY <2>2, <2>6, Zenon DEF add_order_unchecked
      <3> HIDE DEF g1
      <3>2. out.res = "ok" => out.graph = MarkKnown(Take(g1, Into(g1.pending, d)), d)
        BY <3>1 DEF CheckIncoming
      <3> QED BY <2>3, <3>2 DEF MarkKnown
    <2> QED BY <2>3, <2>4, <2>5, <2>6
  <1> QED BY <1>1, <1>2

(* Handlers use the backend as any putters and readers do.                 *)
LEMMA GrpcIsService == [GrpcNext]_allvars => [Next]_vars
  <1> SUFFICES ASSUME GrpcNext PROVE [Next]_vars
    BY DEF allvars
  <1>1. ASSUME NEW c \in Uploaders, UploadStep(c) PROVE [Next]_vars
    <2>1. c \in Putters
      BY UploadersAssumption, Zenon
    <2>2. CASE ServerStep(c)
      BY <2>1, <2>2, Zenon
      DEF ServerStep, ServerReceive, ServerValidates, ServerCloses, ServerForwards,
                        ServerStores, Next, PutterNext
    <2>3. CASE ~ServerStep(c)
      BY <1>1, <2>1, <2>3, Zenon
      DEF UploadStep, ClientClose, ClientClosed, ClientDrop, TaskReturns,
                        ConnectionBreaks, BackendFails, ClientPut, Next, PutterNext
    <2> QED BY <2>2, <2>3
  <1>2. ASSUME NEW r \in Readers, DownloadStep(r) PROVE [Next]_vars
    BY <1>2, SMTT(40)
    DEF DownloadStep, Request, ClientReceives, ClientEnds, ClientFails, ServerFails,
                ServerSends, Next, ReaderNext
  <1> QED BY <1>1, <1>2 DEF GrpcNext, Uploads, Downloads

-----------------------------------------------------------------------------
(* A step leaves the upload of q alone; a step of the upload of c leaves   *)
(* all the others and the downloads alone.                                 *)
Quiet(q) ==
    /\ graph'[q] = graph[q] /\ pc'[q] = pc[q] /\ rejected'[q] = rejected[q]
    /\ cput'[q] = cput[q] /\ accepted'[q] = accepted[q] /\ chan'[q] = chan[q]
    /\ task'[q] = task[q] /\ srv'[q] = srv[q] /\ sgraph'[q] = sgraph[q] /\ rest'[q] = rest[q]

UploadFrame(c) ==
    /\ db \subseteq db' /\ UNCHANGED rvars
    /\ \A q \in Uploaders \ {c} : Quiet(q)

(* Every step of an upload keeps the types, and moves this upload only.    *)
LEMMA UploadTypes ==
    ASSUME GrpcInv, NEW c \in Uploaders, UploadStep(c)
    PROVE  UploadTypeOK' /\ UploadFrame(c)
  <1>0. TypeOK /\ UploadTypeOK /\ c \in Putters
    BY UploadersAssumption, SMTT(40) DEF GrpcInv, IInv
  <1> USE DEF UploadTypeOK, UploadFrame, Quiet
  <1>1. CASE \/ ClientClose(c) \/ ClientClosed(c) \/ ClientDrop(c) \/ TaskReturns(c)
             \/ ConnectionBreaks(c)
    BY <1>0, <1>1, Zenon
    DEF ClientClose, ClientClosed, ClientDrop, TaskReturns, ConnectionBreaks, vars, rvars
  <1>2. CASE BackendFails(c)
    BY <1>0, <1>2, UploadersAssumption DEF BackendFails, StoreFails, TypeOK
  <1>3. ASSUME NEW d \in Dirs, ClientPut(c, d) PROVE UploadTypeOK' /\ UploadFrame(c)
    <2> DEFINE more == Append(accepted[c], d)
               filled == Append(chan[c], d)
    <2>1. more \in Seq(Dirs) /\ filled \in Seq(Dirs)
      BY <1>0, OneMore
    <2>5. /\ accepted' = [accepted EXCEPT ![c] = more] \/ accepted' = [accepted EXCEPT ![c] = accepted[c]]
          /\ chan' = [chan EXCEPT ![c] = filled] \/ chan' = chan
      BY <1>0, <1>3, Zenon DEF ClientPut
    <2> HIDE DEF more, filled
    <2>2. /\ cput' \in [Uploaders -> {"open", "closing", "closed_ok", "closed_err", "dropped"}]
          /\ \A q \in Uploaders \ {c} : cput'[q] = cput[q]
      BY <1>0, <1>3, Zenon DEF ClientPut
    <2>3. /\ accepted' \in [Uploaders -> Seq(Dirs)]
          /\ \A q \in Uploaders \ {c} : accepted'[q] = accepted[q]
      <3>1. accepted \in [Uploaders -> Seq(Dirs)] /\ accepted[c] \in Seq(Dirs)
        BY <1>0
      <3>2. CASE accepted' = [accepted EXCEPT ![c] = more]
        BY ONLY c \in Uploaders, <2>1, <3>1, <3>2, Updated, Zenon
      <3>3. CASE accepted' = [accepted EXCEPT ![c] = accepted[c]]
        BY ONLY c \in Uploaders, <3>1, <3>3, Updated, Zenon
      <3> QED BY <2>5, <3>2, <3>3, Zenon
    <2>6. /\ chan' \in [Uploaders -> Seq(Dirs)]
          /\ \A q \in Uploaders \ {c} : chan'[q] = chan[q]
      <3>1. chan \in [Uploaders -> Seq(Dirs)]
        BY <1>0
      <3> QED BY ONLY c \in Uploaders, <2>1, <2>5, <3>1, Updated, SMTT(40)
    <2>4. UNCHANGED <<task, srv, sgraph, rest>> /\ UNCHANGED vars
      BY <1>3, Zenon DEF ClientPut
    <2> QED BY <1>0, <2>2, <2>3, <2>4, <2>6 DEF vars, rvars
  <1>4. CASE ServerReceive(c)
    <2>1. Tail(chan[c]) \in Seq(Dirs) /\ Head(chan[c]) \in Dirs
      BY <1>0, <1>4, OneLess DEF ServerReceive
    <2>2. PICK out \in LeavesToRoot_add(sgraph[c], Head(chan[c])) :
             /\ sgraph' = [sgraph EXCEPT ![c] = out.graph]
             /\ srv' = [srv EXCEPT ![c] = IF out.res = "ok" THEN @ ELSE "err"]
      BY <1>4, Zenon DEF ServerReceive
    <2>3. out.graph \in Graph
      BY <1>0, <1>4, <2>1, <2>2, PutKeepsGraph, Zenon
      DEF GrpcInv, UploadInv, UploadData, ServerReceive
    <2> QED BY <1>0, <1>4, <2>1, <2>2, <2>3, Zenon DEF ServerReceive, vars, rvars
  <1>5. CASE ServerValidates(c)
    <2>1. Drained(sgraph[c]) \in SUBSET Dirs
      BY <1>0 DEF Drained, Graph
    <2> QED BY <1>0, <1>5, <2>1, ZenonT(40) DEF ServerValidates, vars, rvars
  <1>6. CASE ServerCloses(c)
    BY <1>0, <1>6, UploadersAssumption, Zenon DEF ServerCloses, Close, TypeOK
  <1>7. ASSUME NEW d \in Dirs, ServerForwards(c, d) PROVE UploadTypeOK' /\ UploadFrame(c)
    BY <1>0, <1>7, UploadersAssumption DEF ServerForwards, Put, TypeOK
  <1>8. ASSUME NEW d \in Dirs, ServerStores(c, d) PROVE UploadTypeOK' /\ UploadFrame(c)
    BY <1>0, <1>8, UploadersAssumption, Zenon DEF ServerStores, StoreOne, TypeOK
  <1> QED BY <1>1, <1>2, <1>3, <1>4, <1>5, <1>6, <1>7, <1>8, Zenon DEF UploadStep, ServerStep

(* An upload whose directories stay where they are, and whose handler may  *)
(* have given up.                                                          *)
LEMMA SameData ==
    ASSUME NEW q \in Uploaders, UploadData(q), db \subseteq db', srv'[q] \in {srv[q], "err", "aborted"},
           graph'[q] = graph[q], pc'[q] = pc[q], rejected'[q] = rejected[q],
           accepted'[q] = accepted[q], chan'[q] = chan[q], sgraph'[q] = sgraph[q], rest'[q] = rest[q]
    PROVE  UploadData(q)'
  <1>1. InChannel(q)' = InChannel(q)
    BY DEF InChannel
  <1>2. \A S : AcceptedIn(q, S) => \A i \in DOMAIN accepted'[q] : accepted'[q][i] \in S
    BY Zenon DEF AcceptedIn
  <1>3. srv[q] = "receiving" => AcceptedIn(q, sgraph[q].known \cup InChannel(q))'
    BY <1>1, <1>2, Zenon DEF UploadData, AcceptedIn
  <1>4. srv[q] = "receiving" => GraphInv(sgraph[q])' /\ OrderInv(sgraph[q])'
    BY SMTT(40) DEF UploadData, GraphInv, OrderInv
  <1>5. /\ srv[q] = "forwarding" => AcceptedIn(q, rest[q] \cup graph[q].known)'
        /\ srv[q] = "closing" => AcceptedIn(q, graph[q].nodes)'
        /\ srv[q] = "ok" => AcceptedIn(q, db)'
    BY <1>2, Zenon DEF UploadData, AcceptedIn
  <1> QED BY <1>3, <1>4, <1>5, Zenon DEF UploadData

(* An upload that does not move keeps its invariant while the store grows. *)
LEMMA QuietUpload ==
    ASSUME NEW q \in Uploaders, UploadInv(q), Quiet(q), db \subseteq db'
    PROVE  UploadInv(q)'
  BY SameData, Zenon DEF UploadInv, Quiet

(* So does a download that does not move.                                  *)
LEMMA QuietDownload ==
    ASSUME NEW r \in Readers, DownloadInv(r), db \subseteq db',
           rpc'[r] = rpc[r], root'[r] = root[r], worklist'[r] = worklist[r], sent'[r] = sent[r],
           cget'[r] = cget[r], down'[r] = down[r], expected'[r] = expected[r],
           received'[r] = received[r], promised'[r] = promised[r]
    PROVE  DownloadInv(r)'
  <1>1. StreamInv(r) => StreamInv(r)'
    BY DEF StreamInv
  <1>2. ExpectInv(r) => ExpectInv(r)'
    BY Zenon DEF ExpectInv
  <1>3. BelowRoot(r) => BelowRoot(r)'
    BY DEF BelowRoot
  <1> QED BY <1>1, <1>2, <1>3, Zenon DEF DownloadInv

-----------------------------------------------------------------------------
(* The steps of an upload, one by one.                                     *)
LEMMA ClientUploadInv ==
    ASSUME GrpcInv, NEW c \in Uploaders,
           \/ (\E d \in Dirs : ClientPut(c, d)) \/ ClientClose(c) \/ ClientClosed(c) \/ ClientDrop(c)
           \/ TaskReturns(c) \/ ConnectionBreaks(c)
    PROVE  UploadInv(c)'
  <1>0. UploadTypeOK /\ UploadInv(c) /\ db' = db
    BY Zenon 
    DEF GrpcInv, ClientPut, ClientClose, ClientClosed, ClientDrop, TaskReturns,
        ConnectionBreaks, vars
  <1>1. ASSUME NEW d \in Dirs, ClientPut(c, d) /\ task[c] = "running" PROVE UploadInv(c)'
    <2> DEFINE more == Append(accepted[c], d)
               filled == Append(chan[c], d)
    <2>1. /\ accepted'[c] = more /\ chan'[c] = filled /\ cput' = cput
          /\ UNCHANGED <<task, srv, sgraph, rest>> /\ UNCHANGED vars
      BY <1>0, <1>1, Zenon DEF ClientPut, UploadTypeOK
    <2>2. srv[c] \notin {"forwarding", "closing", "ok"}
      BY <1>0, <1>1, Zenon DEF ClientPut, UploadInv
    <2>3. ASSUME srv[c] = "receiving" PROVE AcceptedIn(c, sgraph[c].known \cup InChannel(c))'
      <3>1. \A i \in DOMAIN accepted[c] : accepted[c][i] \in sgraph[c].known \cup InChannel(c)
        BY <1>0, <2>3 DEF UploadInv, UploadData, AcceptedIn
      <3>2. /\ accepted[c] \in Seq(Dirs) /\ chan[c] \in Seq(Dirs)
        BY <1>0, Zenon DEF UploadTypeOK
      <3> DEFINE held == {filled[i] : i \in DOMAIN filled}
      <3>3. InChannel(c) \subseteq held /\ d \in held
        BY <3>2, OneMore DEF InChannel
      <3>4. \A i \in DOMAIN more : more[i] = d \/ (i \in DOMAIN accepted[c] /\ more[i] = accepted[c][i])
        BY <3>2, OneMore, SMTT(40)
      <3>5. \A i \in DOMAIN more : more[i] \in sgraph[c].known \cup held
        BY <3>1, <3>3, <3>4, Zenon
      <3>6. InChannel(c)' = held
        BY <2>1, Zenon DEF InChannel
      <3> QED BY <2>1, <3>5, <3>6, Zenon DEF AcceptedIn
    <2> QED
      BY <1>0, <2>1, <2>2, <2>3, ZenonT(40) DEF UploadInv, UploadData, vars, GraphInv, OrderInv
  <1>2. ASSUME NEW d \in Dirs, ClientPut(c, d) /\ task[c] # "running" PROVE UploadInv(c)'
    <2>1. task[c] = "err"
      BY <1>0, <1>2, Zenon DEF ClientPut, UploadInv, UploadTypeOK
    <2>2. /\ cput'[c] = "closed_err" /\ accepted'[c] = accepted[c]
          /\ UNCHANGED <<chan, task, srv, sgraph, rest>> /\ UNCHANGED vars
      BY <1>0, <1>2, <2>1, Zenon DEF ClientPut, UploadTypeOK
    <2> QED BY <1>0, <2>1, <2>2, SameData, Zenon DEF UploadInv, vars
  <1>3. CASE ClientClose(c) \/ ClientClosed(c) \/ ClientDrop(c)
    <2>1. /\ cput'[c] # "open"
          /\ cput'[c] = "closed_ok" => task[c] = "ok"
          /\ UNCHANGED <<accepted, chan, task, srv, sgraph, rest>> /\ UNCHANGED vars
      BY <1>0, <1>3, SMTT(40) DEF ClientClose, ClientClosed, ClientDrop, UploadTypeOK
    <2>2. UploadData(c)'
      BY <1>0, <2>1, SameData, ZenonT(40) DEF UploadInv, vars
    <2> QED BY <1>0, <2>1, <2>2, Zenon DEF UploadInv
  <1>4. CASE TaskReturns(c) \/ ConnectionBreaks(c)
    <2>1. /\ task[c] = "running"
          /\ task'[c] = "ok" => srv'[c] = "ok"
          /\ srv'[c] \in {srv[c], "aborted"}
          /\ UNCHANGED <<cput, accepted, chan, sgraph, rest>> /\ UNCHANGED vars
      BY <1>0, <1>4, Zenon DEF TaskReturns, ConnectionBreaks, UploadTypeOK
    <2>2. UploadData(c)'
      BY <1>0, <2>1, SameData, Zenon DEF UploadInv, vars
    <2> QED BY <1>0, <2>1, <2>2, Zenon DEF UploadInv
  <1>5. ASSUME NEW d \in Dirs, ClientPut(c, d) PROVE UploadInv(c)'
    BY <1>1, <1>2, <1>5, Zenon
  <1> QED BY <1>3, <1>4, <1>5, Zenon

(* The handler reads a directory: out of the channel, into its graph, or   *)
(* the upload has failed.                                                  *)
LEMMA ReceiveUploadInv ==
    ASSUME GrpcInv, NEW c \in Uploaders, ServerReceive(c)
    PROVE  UploadInv(c)'
  <1> DEFINE d == Head(chan[c])
             left == Tail(chan[c])
             held == {left[i] : i \in DOMAIN left}
  <1>0. UploadTypeOK /\ UploadInv(c) /\ UploadData(c) /\ srv[c] = "receiving"
    BY Zenon DEF GrpcInv, UploadInv, ServerReceive
  <1>1. d \in Dirs /\ InChannel(c) = held \cup {d}
    <2>1. chan[c] \in Seq(Dirs) /\ chan[c] # <<>>
      BY <1>0 DEF ServerReceive, UploadTypeOK
    <2>2. d \in Dirs /\ held \cup {d} \subseteq InChannel(c)
      BY <2>1, OneLess DEF InChannel
    <2>3. ASSUME NEW i \in DOMAIN chan[c] PROVE chan[c][i] \in held \cup {d}
      <3>1. i = 1 \/ (i - 1 \in DOMAIN left /\ left[i - 1] = chan[c][i])
        BY <2>1, OneLess
      <3> QED BY <2>1, <3>1, OneLess
    <2> QED BY <2>2, <2>3, Zenon DEF InChannel
  <1>2. PICK out \in LeavesToRoot_add(sgraph[c], d) :
           /\ sgraph' = [sgraph EXCEPT ![c] = out.graph]
           /\ srv' = [srv EXCEPT ![c] = IF out.res = "ok" THEN @ ELSE "err"]
    BY Zenon DEF ServerReceive
  <1>3. /\ sgraph'[c] = out.graph /\ srv'[c] = (IF out.res = "ok" THEN "receiving" ELSE "err")
        /\ chan'[c] = left /\ UNCHANGED <<cput, accepted, task, rest>> /\ UNCHANGED vars
    BY <1>0, <1>2 DEF ServerReceive, UploadTypeOK
  <1>4. sgraph[c] \in Graph /\ GraphInv(sgraph[c]) /\ OrderInv(sgraph[c])
    BY <1>0, Zenon DEF UploadTypeOK, UploadData
  <1> HIDE DEF d, left
  <1>5. GraphInv(out.graph) /\ OrderInv(out.graph) /\ sgraph[c].known \subseteq out.graph.known
    BY <1>1, <1>2, <1>4, PutKeepsGraph, PutStores, Zenon
  <1>6. out.res = "ok" => d \in out.graph.known
    BY <1>1, <1>2, <1>4, PutStores, Zenon
  <1>7. CASE out.res = "ok"
    <2>1. \A i \in DOMAIN accepted[c] : accepted[c][i] \in out.graph.known \cup held
      BY <1>0, <1>1, <1>5, <1>6, <1>7, Zenon DEF UploadData, AcceptedIn
    <2>2. AcceptedIn(c, sgraph[c].known \cup InChannel(c))'
      BY <1>3, <2>1, Zenon DEF AcceptedIn, InChannel
    <2>3. GraphInv(sgraph[c])' /\ OrderInv(sgraph[c])'
      <3>1. PICK h : h = out.graph
        BY Zenon
      <3>2. GraphInv(h) /\ OrderInv(h)
        BY <1>5, <3>1, Zenon
      <3>3. sgraph'[c] = h
        BY <1>3, <3>1, Zenon
      <3> QED BY <3>2, <3>3, Zenon DEF GraphInv, OrderInv
    <2>4. UploadData(c)'
      BY <1>0, <1>3, <1>7, <2>2, <2>3, Zenon DEF UploadData, vars
    <2> QED BY <1>0, <1>3, <1>7, <2>4, Zenon DEF UploadInv
  <1>8. CASE out.res # "ok"
    BY <1>0, <1>3, <1>8, Zenon DEF UploadInv, UploadData
  <1> QED BY <1>7, <1>8, Zenon

(* A validated graph is drained without loss: nothing accepted is left     *)
(* behind.                                                                 *)
LEMMA ValidatesUploadInv ==
    ASSUME GrpcInv, NEW c \in Uploaders, ServerValidates(c)
    PROVE  UploadInv(c)'
  <1>0. UploadTypeOK /\ UploadInv(c) /\ UploadData(c) /\ srv[c] = "receiving"
    BY Zenon DEF GrpcInv, UploadInv, ServerValidates
  <1>1. CASE validate(sgraph[c])
    <2>1. /\ srv'[c] = "forwarding" /\ rest'[c] = Drained(sgraph[c])
          /\ UNCHANGED <<cput, accepted, task>> /\ UNCHANGED vars /\ cput[c] # "open"
      BY <1>0, <1>1, Zenon DEF ServerValidates, UploadTypeOK
    <2>2. Drained(sgraph[c]) = sgraph[c].nodes /\ sgraph[c].known \subseteq sgraph[c].nodes
      BY <1>0, DrainedAll, Zenon DEF UploadTypeOK, UploadData, GraphInv
    <2>3. InChannel(c) = {}
      <3>1. chan[c] = <<>> /\ DOMAIN <<>> = {}
        BY SMTT(40) DEF ServerValidates
      <3> QED BY <3>1, Zenon DEF InChannel
    <2>4. AcceptedIn(c, rest[c] \cup graph[c].known)'
      BY <1>0, <2>1, <2>2, <2>3, Zenon DEF UploadData, AcceptedIn
    <2> QED BY <1>0, <2>1, <2>4, Zenon DEF UploadInv, UploadData, vars
  <1>2. CASE ~validate(sgraph[c])
    <2>1. srv'[c] = "err" /\ UNCHANGED <<cput, task>>
      BY <1>0, <1>2, Zenon DEF ServerValidates, UploadTypeOK
    <2> QED BY <1>0, <2>1, Zenon DEF UploadInv, UploadData
  <1> QED BY <1>1, <1>2, Zenon

(* What the handler drained goes to the backend's putter, or the upload    *)
(* has failed.                                                             *)
LEMMA ForwardsUploadInv ==
    ASSUME GrpcInv, NEW c \in Uploaders, NEW d \in Dirs, ServerForwards(c, d)
    PROVE  UploadInv(c)'
  <1>0. /\ UploadTypeOK /\ UploadInv(c) /\ UploadData(c) /\ srv[c] = "forwarding"
        /\ TypeOK /\ c \in Putters
    BY UploadersAssumption, SMTT(40) DEF GrpcInv, IInv, UploadInv, ServerForwards
  <1>1. PICK out \in LeavesToRoot_add(graph[c], d) :
           /\ graph' = [graph EXCEPT ![c] = out.graph]
           /\ rejected' = [rejected EXCEPT ![c] = @ \/ out.res # "ok"]
           /\ pc' = [pc EXCEPT ![c] = IF out.res = "panic" THEN "panicked" ELSE @]
    BY ZenonT(40) DEF ServerForwards, Put
  <1>2. graph[c] \in Graph /\ graph'[c] = out.graph /\ pc[c] = "open" /\ rejected[c] = FALSE
    BY <1>0, <1>1, Zenon DEF TypeOK, UploadData
  <1>3. UNCHANGED <<cput, accepted, task>> /\ rest'[c] = rest[c] \ {d}
    BY <1>0, Zenon DEF ServerForwards, UploadTypeOK
  <1>4. CASE out.res = "ok"
    <2>1. rejected'[c] = FALSE /\ pc'[c] = "open"
      BY <1>0, <1>1, <1>2, <1>4, Zenon DEF TypeOK
    <2>2. srv'[c] = "forwarding"
      BY <1>0, <2>1, ZenonT(40) DEF ServerForwards, UploadTypeOK
    <2>3. graph[c].known \cup {d} \subseteq out.graph.known
      BY <1>1, <1>2, <1>4, PutStores, ZenonT(40)
    <2>4. AcceptedIn(c, rest[c] \cup graph[c].known)'
      BY <1>0, <1>2, <1>3, <2>3, Zenon DEF UploadData, AcceptedIn
    <2> QED BY <1>0, <1>3, <2>1, <2>2, <2>4, ZenonT(40) DEF UploadInv, UploadData
  <1>5. CASE out.res # "ok"
    <2>1. rejected'[c] = TRUE
      BY <1>0, <1>1, <1>5, Zenon DEF TypeOK
    <2>2. srv'[c] = "err"
      BY <1>0, <2>1, Zenon DEF ServerForwards, UploadTypeOK
    <2> QED BY <1>0, <1>3, <2>2, Zenon DEF UploadInv, UploadData
  <1> QED BY <1>4, <1>5, Zenon

(* The putter of the backend stores all it was given before the handler    *)
(* answers.                                                                *)
LEMMA CloseUploadInv ==
    ASSUME GrpcInv, IInv', NEW c \in Uploaders,
           ServerCloses(c) \/ (\E d \in Dirs : ServerStores(c, d)) \/ BackendFails(c)
    PROVE  UploadInv(c)'
  <1>0. /\ UploadTypeOK /\ UploadInv(c) /\ UploadData(c) /\ TypeOK
        /\ c \in Putters /\ PutterInv(c) /\ PutterInv(c)'
    BY UploadersAssumption, ZenonT(40) DEF GrpcInv, IInv, UploadInv
  <1>1. CASE ServerCloses(c)
    <2>1. /\ UNCHANGED <<cput, accepted, task>> /\ graph' = graph
          /\ srv[c] = "forwarding" /\ rest[c] = {}
          /\ srv'[c] = "err" \/ (srv'[c] = "closing" /\ pc'[c] = "closing")
      BY <1>0, <1>1, ZenonT(40) DEF ServerCloses, Close, UploadTypeOK
    <2>2. graph[c].known \subseteq graph[c].nodes
      BY <1>0, ZenonT(40) DEF PutterInv, GraphInv
    <2>3. AcceptedIn(c, graph[c].nodes)'
      BY <1>0, <2>1, <2>2, ZenonT(40) DEF UploadData, AcceptedIn
    <2> QED BY <1>0, <2>1, <2>3, ZenonT(40) DEF UploadInv, UploadData
  <1>2. ASSUME NEW d \in Dirs, ServerStores(c, d) PROVE UploadInv(c)'
    <2>1. /\ UNCHANGED <<cput, accepted, task>> /\ graph' = graph /\ srv[c] = "closing"
          /\ \/ srv'[c] = "ok" /\ pc'[c] = "done"
             \/ srv'[c] = "closing" /\ pc'[c] = "closing"
      BY <1>0, <1>2, Zenon DEF ServerStores, StoreOne, UploadTypeOK, TypeOK
    <2>2. pc'[c] = "done" => graph[c].nodes \subseteq db'
      BY <1>0, <2>1, ZenonT(40) DEF PutterInv
    <2>3. AcceptedIn(c, graph[c].nodes)' /\ (pc'[c] = "done" => AcceptedIn(c, db)')
      BY <1>0, <2>1, <2>2, ZenonT(40) DEF UploadData, AcceptedIn
    <2> QED BY <1>0, <2>1, <2>3, ZenonT(40) DEF UploadInv, UploadData
  <1>3. CASE BackendFails(c)
    <2>1. UNCHANGED <<cput, task>> /\ srv'[c] = "err" /\ srv[c] = "closing"
      BY <1>0, <1>3, Zenon DEF BackendFails, UploadTypeOK
    <2> QED BY <1>0, <2>1, ZenonT(40) DEF UploadInv, UploadData
  <1> QED BY <1>1, <1>2, <1>3, Zenon

-----------------------------------------------------------------------------
(* A step of the download of r leaves the store, the uploads and the other *)
(* downloads alone.                                                        *)
DownloadFrame(r) ==
    /\ db' = db /\ UNCHANGED pvars /\ UNCHANGED uvars /\ root' = root
    /\ \A q \in Readers \ {r} :
          /\ rpc'[q] = rpc[q] /\ worklist'[q] = worklist[q] /\ sent'[q] = sent[q]
          /\ cget'[q] = cget[q] /\ down'[q] = down[q] /\ expected'[q] = expected[q]
          /\ received'[q] = received[q] /\ promised'[q] = promised[q]

(* Every step of a download keeps the types, and moves this download only. *)
LEMMA DownloadTypes ==
    ASSUME GrpcInv, NEW r \in Readers, Downloads(r)
    PROVE  DownloadTypeOK' /\ DownloadFrame(r)
  <1>0. TypeOK /\ DownloadTypeOK /\ DownloadStep(r) /\ UNCHANGED uvars /\ DownloadInv(r)
    BY Zenon DEF GrpcInv, IInv, Downloads
  <1>1. /\ promised' \in [Readers -> BOOLEAN]
        /\ \A q \in Readers \ {r} : promised'[q] = promised[q]
    <2>1. Acknowledged(root[r]) \in BOOLEAN
      BY Zenon DEF Acknowledged
    <2> HIDE DEF Acknowledged
    <2> QED BY <1>0, <2>1, Zenon DEF Downloads, DownloadTypeOK
  <1> USE DEF DownloadTypeOK, DownloadFrame, TypeOK
  <1>2. CASE Request(r)
    BY <1>0, <1>1, <1>2, SMTT(40) DEF Request, Traverse
  <1>3. CASE ClientEnds(r) \/ ClientFails(r)
    BY <1>0, <1>1, <1>3, ZenonT(40) DEF ClientEnds, ClientFails, vars, pvars
  <1>4. CASE ServerFails(r)
    BY <1>0, <1>1, <1>4, Zenon DEF ServerFails, LookupFails, dvars
  <1>5. CASE ClientReceives(r)
    <2> DEFINE d == Head(down[r])
               left == Tail(down[r])
    <2>1. left \in Seq(Dirs) /\ d \in Dirs
      BY <1>0, <1>5, OneLess, Zenon DEF ClientReceives
    <2>2. Refs(d) \subseteq Dirs
      BY <2>1, RefsType, Zenon
    <2>3. /\ \/ /\ expected' = [expected EXCEPT ![r] = (@ \ {d}) \cup Refs(d)]
                /\ received' = [received EXCEPT ![r] = @ \cup {d}] /\ cget' = cget
             \/ /\ cget' = [cget EXCEPT ![r] = "unexpected"] /\ expected' = expected
                /\ received' = received
          /\ down' = [down EXCEPT ![r] = left] /\ UNCHANGED vars
      BY <1>5, Zenon DEF ClientReceives
    <2> HIDE DEF d, left
    <2>4. down' \in [Readers -> Seq(Dirs)] /\ \A q \in Readers \ {r} : down'[q] = down[q]
      BY <1>0, <2>1, <2>3, Updated, SMTT(40)
    <2>5. CASE cget' = [cget EXCEPT ![r] = "unexpected"] /\ expected' = expected /\ received' = received
      BY <1>0, <1>1, <2>3, <2>4, <2>5, Zenon DEF vars, pvars
    <2>6. CASE /\ expected' = [expected EXCEPT ![r] = (@ \ {d}) \cup Refs(d)]
               /\ received' = [received EXCEPT ![r] = @ \cup {d}] /\ cget' = cget
      BY <1>0, <1>1, <2>1, <2>2, <2>3, <2>4, <2>6, SMTT(40) DEF vars, pvars
    <2> QED BY <2>3, <2>5, <2>6, Zenon
  <1>6. ASSUME NEW d \in Dirs, ServerSends(r, d) PROVE DownloadTypeOK' /\ DownloadFrame(r)
    <2> DEFINE more == Append(down[r], d)
    <2>1. more \in Seq(Dirs)
      BY <1>0, OneMore, Zenon
    <2>2. down' = [down EXCEPT ![r] = more] \/ down' = [down EXCEPT ![r] = down[r]]
      BY <1>0, <1>6, Zenon DEF ServerSends
    <2> HIDE DEF more
    <2>3. /\ down' \in [Readers -> Seq(Dirs)] /\ \A q \in Readers \ {r} : down'[q] = down[q]
      <3>1. CASE down' = [down EXCEPT ![r] = more]
        BY <1>0, <2>1, <3>1, Updated, Zenon
      <3>2. CASE down' = [down EXCEPT ![r] = down[r]]
        BY <1>0, <3>2, Updated, SMTT(40)
      <3> QED BY <2>2, <3>1, <3>2, Zenon
    <2>4. UNCHANGED <<cget, expected, received, db, root>> /\ UNCHANGED pvars
      BY <1>6, ZenonT(40) DEF ServerSends, TraverseStep
    <2>5. \A q \in Readers \ {r} : rpc'[q] = rpc[q] /\ worklist'[q] = worklist[q] /\ sent'[q] = sent[q]
      BY <1>0, <1>6, Zenon DEF ServerSends, TraverseStep, MissingDirectory, FoundDirectory
    <2> QED BY <1>0, <1>1, <2>3, <2>4, <2>5, ZenonT(40)
  <1> QED BY <1>0, <1>2, <1>3, <1>4, <1>5, <1>6, ZenonT(40) DEF DownloadStep

(* The request: a root that was acknowledged is stored.                    *)
LEMMA RequestDownloadInv ==
    ASSUME GrpcInv, NEW r \in Readers, Downloads(r), Request(r)
    PROVE  DownloadInv(r)'
  <1>0. /\ TypeOK /\ DownloadTypeOK /\ UploadTypeOK /\ DownloadInv(r) /\ ReaderInv(r)
        /\ \A c \in Uploaders : UploadInv(c)
    BY Zenon DEF GrpcInv, IInv
  <1>1. Acknowledged(root[r]) => root[r] \in db
    <2> SUFFICES ASSUME NEW c \in Uploaders, cput[c] = "closed_ok", root[r] \in Range(accepted[c])
                 PROVE  root[r] \in db
      BY SMTT(40) DEF Acknowledged
    <2>1. AcceptedIn(c, db)
      BY <1>0, Zenon DEF UploadInv, UploadData
    <2>2. accepted[c] \in Seq(Dirs)
      BY <1>0, Zenon DEF UploadTypeOK
    <2>3. \E i \in DOMAIN accepted[c] : accepted[c][i] = root[r]
      BY <2>2, Zenon DEF Range
    <2> QED BY <2>1, <2>3, Zenon DEF AcceptedIn
  <1>2. promised'[r] = TRUE => root[r] \in db
    <2>1. promised' = [promised EXCEPT ![r] = Acknowledged(root[r])]
      BY Zenon DEF Downloads, Request
    <2> HIDE DEF Acknowledged
    <2> QED BY <1>0, <1>1, <2>1, Zenon DEF DownloadTypeOK
  <1>3. /\ cget'[r] = "receiving" /\ expected'[r] = {root[r]} /\ rpc'[r] = "running"
        /\ worklist'[r] = {root[r]}
        /\ UNCHANGED <<down, received, db, root, sent>>
    BY <1>0, SMTT(40) DEF Request, Traverse, TypeOK, DownloadTypeOK
  <1>4. down[r] = <<>> /\ received[r] = {} /\ sent[r] = {}
    BY <1>0, Zenon DEF DownloadInv, ReaderInv, Request
  <1>5. DOMAIN down[r] = {}
    <2>1. DOMAIN <<>> = {}
      BY SMTT(40)
    <2> QED BY <1>4, <2>1, Zenon
  <1>6. StreamInv(r)'
    BY <1>3, <1>4, <1>5, ZenonT(40) DEF StreamInv
  <1>7. ExpectInv(r)'
    BY <1>3, <1>4, Zenon DEF ExpectInv
  <1> QED BY <1>2, <1>3, <1>4, <1>6, <1>7, Zenon DEF DownloadInv, BelowRoot

(* The end of a stream, however it comes.                                  *)
LEMMA FailDownloadInv ==
    ASSUME GrpcInv, NEW r \in Readers, Downloads(r), ServerFails(r) \/ ClientFails(r)
    PROVE  DownloadInv(r)'
  <1>0. TypeOK /\ DownloadTypeOK /\ DownloadInv(r)
    BY SMTT(40) DEF GrpcInv, IInv
  <1>1. CASE ServerFails(r)
    <2>1. /\ rpc[r] = "running" /\ rpc'[r] = "failed"
          /\ UNCHANGED <<db, root, worklist, sent, cget, down, expected, received>>
      BY <1>0, <1>1, Zenon DEF ServerFails, LookupFails, TypeOK, dvars
    <2>2. cget[r] # "idle" /\ promised' = promised
      BY <1>0, <2>1, ZenonT(40) DEF DownloadInv, Downloads
    <2>3. /\ StreamInv(r) => StreamInv(r)'
          /\ ExpectInv(r) => ExpectInv(r)'
          /\ BelowRoot(r) => BelowRoot(r)'
      BY <2>1, ZenonT(40) DEF StreamInv, ExpectInv, BelowRoot
    <2> QED BY <1>0, <2>1, <2>2, <2>3, Zenon DEF DownloadInv
  <1>2. CASE ClientFails(r)
    <2>1. cget[r] = "receiving" /\ cget'[r] = "error" /\ UNCHANGED vars /\ promised' = promised
      BY <1>0, <1>2, Zenon DEF ClientFails, DownloadTypeOK, Downloads
    <2> QED BY <1>0, <2>1, ZenonT(40) DEF DownloadInv, BelowRoot, vars
  <1> QED BY <1>1, <1>2

(* The end of a stream: what was sent was received, so the closure is      *)
(* complete, or nothing was found and nothing sent.                        *)
LEMMA EndDownloadInv ==
    ASSUME GrpcInv, NEW r \in Readers, Downloads(r), ClientEnds(r)
    PROVE  DownloadInv(r)'
  <1>0. TypeOK /\ DownloadTypeOK /\ DownloadInv(r) /\ ReaderInv(r) /\ StreamInv(r) /\ ExpectInv(r)
    BY ZenonT(40) DEF GrpcInv, IInv, ClientEnds, DownloadInv
  <1>1. /\ UNCHANGED <<down, expected, received>> /\ UNCHANGED vars /\ promised' = promised
        /\ cget'[r] = IF expected[r] = {root[r]} THEN "empty"
                      ELSE IF expected[r] \ received[r] = {} THEN "complete" ELSE "premature"
    BY <1>0, ZenonT(40) DEF ClientEnds, DownloadTypeOK, Downloads
  <1>2. sent[r] = received[r]
    <2>1. DOMAIN <<>> = {} /\ down[r] = <<>>
      BY SMTT(40) DEF ClientEnds
    <2> QED BY <1>0, <2>1, Zenon DEF StreamInv
  <1>3. CASE received[r] = {}
    <2>1. cget'[r] = "empty" /\ rpc[r] = "done"
      BY <1>0, <1>1, <1>3, ZenonT(40) DEF ExpectInv, ClientEnds
    <2> QED BY <1>0, <1>1, <1>2, <1>3, <2>1, ZenonT(40) DEF DownloadInv, BelowRoot, vars
  <1>4. CASE received[r] # {}
    <2>1. root[r] \in received[r] /\ \A d \in received[r] : Refs(d) \subseteq received[r]
      BY <1>0, <1>2, <1>4, Zenon DEF ReaderInv, ClientEnds
    <2>2. root[r] \notin expected[r]
      <3> SUFFICES ASSUME NEW s \in received[r], root[r] \in Refs(s) PROVE FALSE
        BY <1>0, <1>4, Zenon DEF ExpectInv
      <3>1. s \in Dirs /\ root[r] \in Dirs
        BY <1>0, Zenon DEF TypeOK, DownloadTypeOK
      <3>2. Depth[s] \in Nat /\ Depth[root[r]] \in Nat /\ Depth[s] < Depth[root[r]]
        BY <3>1, DepthAssumption, Zenon DEF Refs
      <3>3. s = root[r] \/ Depth[root[r]] < Depth[s]
        BY <1>0, <1>2, Zenon DEF DownloadInv, BelowRoot
      <3> QED BY <3>2, <3>3, SMTT(40)
    <2>3. expected[r] \subseteq received[r]
      BY <1>0, <1>4, <2>1, ZenonT(40) DEF ExpectInv
    <2>4. cget'[r] = "complete"
      BY <1>1, <2>2, <2>3, Zenon
    <2> QED BY <1>0, <1>1, <2>1, <2>4, ZenonT(40) DEF DownloadInv, BelowRoot, vars
  <1> QED BY <1>3, <1>4, Zenon

(* A message is expected when it arrives.                                  *)
LEMMA ReceiveDownloadInv ==
    ASSUME GrpcInv, NEW r \in Readers, Downloads(r), ClientReceives(r)
    PROVE  DownloadInv(r)'
  <1> DEFINE d == Head(down[r])
             left == Tail(down[r])
             n == Len(down[r])
             old == down[r]
             want == (expected[r] \ {d}) \cup Refs(d)
             got == received[r] \cup {d}
  <1>0. /\ TypeOK /\ DownloadTypeOK /\ DownloadInv(r) /\ StreamInv(r) /\ ExpectInv(r)
        /\ cget[r] = "receiving"
    BY ZenonT(40) DEF GrpcInv, IInv, ClientReceives, DownloadInv
  <1>1. /\ d = old[1] /\ n \in Nat /\ n >= 1 /\ DOMAIN old = 1..n
        /\ DOMAIN left = 1..(n - 1) /\ \A i \in 1..(n - 1) : left[i] = old[i + 1]
    <2>1. down[r] \in Seq(Dirs) /\ down[r] # <<>>
      BY <1>0, Zenon DEF ClientReceives, DownloadTypeOK
    <2> QED BY <2>1, OneLess, Zenon
  <1>2. d \in expected[r] /\ d \in sent[r]
    <2>1. 1 \in DOMAIN old /\ 1..(1 - 1) = {}
      BY <1>1, SMTT(40)
    <2> QED BY <1>0, <1>1, <2>1, SMTT(40) DEF StreamInv
  <1>3. /\ expected'[r] = want /\ received'[r] = got /\ down'[r] = left
        /\ cget' = cget /\ UNCHANGED vars /\ promised' = promised
    BY <1>0, <1>2, ZenonT(40) DEF ClientReceives, DownloadTypeOK, Downloads
  <1>4. /\ \A i, j \in DOMAIN old : old[i] = old[j] => i = j
        /\ \A i \in DOMAIN old : old[i] \in sent[r] /\ old[i] \notin received[r]
        /\ received[r] \subseteq sent[r]
        /\ \A s \in sent[r] : s \in received[r] \/ \E i \in DOMAIN old : old[i] = s
        /\ \A i \in DOMAIN old :
              old[i] \in expected[r] \/ \E j \in 1..(i - 1) : old[i] \in Refs(old[j])
    BY <1>0, ZenonT(40) DEF StreamInv
  <1> HIDE DEF d, left, n, old
  <1>5. \A i \in DOMAIN left : i + 1 \in DOMAIN old /\ left[i] = old[i + 1] /\ left[i] # d
    <2> SUFFICES ASSUME NEW i \in DOMAIN left
                 PROVE  i + 1 \in DOMAIN old /\ left[i] = old[i + 1] /\ left[i] # d
      BY Zenon
    <2>1. i + 1 \in DOMAIN old /\ 1 \in DOMAIN old /\ i + 1 # 1
      BY <1>1, SMTT(40)
    <2>2. left[i] = old[i + 1] /\ d = old[1]
      BY <1>1, Zenon
    <2> QED BY <1>4, <2>1, <2>2, Zenon
  <1>6. \A i, j \in DOMAIN left : left[i] = left[j] => i = j
    BY <1>1, <1>4, <1>5
  <1>7. /\ \A i \in DOMAIN left : left[i] \in sent[r] /\ left[i] \notin got
        /\ got \subseteq sent[r]
    BY <1>2, <1>4, <1>5, Zenon
  <1>8. ASSUME NEW s \in sent[r] PROVE s \in got \/ \E i \in DOMAIN left : left[i] = s
    <2> SUFFICES ASSUME NEW i \in DOMAIN old, old[i] = s, s # d
                 PROVE  \E k \in DOMAIN left : left[k] = s
      BY <1>4, Zenon
    <2>1. i - 1 \in DOMAIN left /\ left[i - 1] = s
      BY <1>1, SMTT(40)
    <2> QED BY <2>1, Zenon
  <1>9. ASSUME NEW i \in DOMAIN left
        PROVE  left[i] \in want \/ \E j \in 1..(i - 1) : left[i] \in Refs(left[j])
    <2>1. CASE left[i] \in expected[r]
      BY <1>5, <2>1, Zenon
    <2>2. ASSUME NEW j \in 1..((i + 1) - 1), left[i] \in Refs(old[j])
          PROVE  left[i] \in want \/ \E k \in 1..(i - 1) : left[i] \in Refs(left[k])
      <3>1. CASE j = 1
        BY <1>1, <2>2, <3>1, Zenon
      <3>2. CASE j # 1
        <4>1. j - 1 \in 1..(i - 1) /\ left[j - 1] = old[j]
          BY <1>1, <3>2, SMTT(40)
        <4> QED BY <2>2, <4>1, Zenon
      <3> QED BY <3>1, <3>2, Zenon
    <2> QED BY <1>4, <1>5, <2>1, <2>2, SMTT(40)
  <1>10. StreamInv(r)'
    <2>1. UNCHANGED sent
      BY <1>3, ZenonT(40) DEF vars
    <2> HIDE DEF got, want
    <2> QED BY <1>3, <1>6, <1>7, <1>8, <1>9, <2>1, Zenon DEF StreamInv
  <1>11. ExpectInv(r)'
    <2>1. UNCHANGED root
      BY <1>3, Zenon DEF vars
    <2>2. root[r] \in got /\ \A x \in want : \E s \in got : x \in Refs(s)
      BY <1>0, <1>2, Zenon DEF ExpectInv
    <2>3. \A s \in got : Refs(s) \subseteq want \cup got
      <3>1. \A s \in received[r] : Refs(s) \subseteq expected[r] \cup received[r]
        BY <1>0, Zenon DEF ExpectInv
      <3> QED BY <3>1, Zenon
    <2>4. got # {}
      OBVIOUS
    <2> HIDE DEF got, want
    <2> QED BY <1>3, <2>1, <2>2, <2>3, <2>4, Zenon DEF ExpectInv
  <1> QED BY <1>0, <1>3, <1>10, <1>11, ZenonT(40) DEF DownloadInv, BelowRoot, vars

(* A directory is sent after one that refers to it, and only once.         *)
LEMMA SendDownloadInv ==
    ASSUME GrpcInv, IInv', NEW r \in Readers, NEW d \in Dirs, Downloads(r), ServerSends(r, d)
    PROVE  DownloadInv(r)'
  <1>0. /\ TypeOK /\ DownloadTypeOK /\ DownloadInv(r) /\ ReaderInv(r) /\ ReaderInv(r)'
        /\ rpc[r] = "running" /\ d \in worklist[r] /\ cget[r] # "idle"
    BY ZenonT(40) DEF GrpcInv, IInv, ServerSends, TraverseStep, DownloadInv
  <1>1. UNCHANGED <<cget, expected, received, db, root>> /\ promised' = promised
    BY <1>0, ZenonT(40) DEF ServerSends, TraverseStep, Downloads
  <1>2. CASE d \notin db
    <2>1. /\ sent' = sent /\ down'[r] = down[r] /\ worklist'[r] \subseteq worklist[r]
          /\ rpc'[r] = "done" => d = root[r]
      BY <1>0, <1>2, SMTT(40)
      DEF ServerSends, TraverseStep, MissingDirectory, FoundDirectory, DownloadTypeOK, TypeOK
    <2>2. rpc'[r] # "running" /\ rpc'[r] # "error"
      BY <1>0, <1>2, Zenon
      DEF ServerSends, TraverseStep, MissingDirectory, FoundDirectory, TypeOK, ReaderInv
    <2>3. /\ StreamInv(r) => StreamInv(r)'
          /\ ExpectInv(r) => ExpectInv(r)'
          /\ BelowRoot(r) => BelowRoot(r)'
      BY <1>1, <2>1, ZenonT(40) DEF StreamInv, ExpectInv, BelowRoot
    <2> QED BY <1>0, <1>1, <1>2, <2>1, <2>2, <2>3, ZenonT(40) DEF DownloadInv
  <1>3. CASE d \in db
    <2> DEFINE more == Append(down[r], d)
               n == Len(down[r]) + 1
               now == sent[r] \cup {d}
    <2>1. /\ sent'[r] = now /\ down'[r] = more
          /\ worklist'[r] = (worklist[r] \ {d}) \cup (Refs(d) \ now)
      BY <1>0, <1>3, SMTT(40)
      DEF ServerSends, TraverseStep, MissingDirectory, FoundDirectory, DownloadTypeOK, TypeOK
    <2>2. d \notin sent[r] /\ (worklist'[r] \cap now = {})
      BY <1>0, <2>1, ZenonT(40) DEF DownloadInv
    <2>3. (sent[r] = {} /\ d = root[r]) \/ (root[r] \in sent[r] /\ \E s \in sent[r] : d \in Refs(s))
      BY <1>0, ZenonT(40) DEF ReaderInv
    <2>4. ASSUME NEW s \in now PROVE s = root[r] \/ Depth[root[r]] < Depth[s]
      <3>1. CASE s \in sent[r] \/ s = root[r]
        BY <1>0, <3>1, ZenonT(40) DEF DownloadInv, BelowRoot
      <3>2. CASE s = d /\ d # root[r]
        <4>1. PICK t \in sent[r] : d \in Refs(t)
          BY <2>3, <3>2, SMTT(40)
        <4>2. t \in Dirs /\ root[r] \in Dirs /\ (t = root[r] \/ Depth[root[r]] < Depth[t])
          BY <1>0, ZenonT(40) DEF TypeOK, DownloadInv, BelowRoot
        <4>3. Depth[t] \in Nat /\ Depth[root[r]] \in Nat /\ Depth[d] \in Nat /\ Depth[t] < Depth[d]
          BY <4>1, <4>2, DepthAssumption, ZenonT(40) DEF Refs
        <4> QED BY <3>2, <4>2, <4>3, SMTT(40)
      <3> QED BY <3>1, <3>2, SMTT(40)
    <2>5. BelowRoot(r)'
      BY <1>1, <2>1, <2>4, Zenon DEF BelowRoot
    <2>6. ASSUME cget[r] = "receiving" PROVE StreamInv(r)' /\ ExpectInv(r)'
      <3> DEFINE old == down[r]
      <3>1. StreamInv(r) /\ ExpectInv(r) /\ old \in Seq(Dirs)
        BY <1>0, <2>6, ZenonT(40) DEF DownloadInv, DownloadTypeOK
      <3>2. /\ n \in Nat /\ n >= 1 /\ DOMAIN old = 1..(n - 1) /\ DOMAIN more = 1..n /\ more[n] = d
            /\ \A i \in 1..(n - 1) : more[i] = old[i]
        BY <3>1, OneMore, Zenon
      <3>3. /\ \A i, j \in DOMAIN old : old[i] = old[j] => i = j
            /\ \A i \in DOMAIN old : old[i] \in sent[r] /\ old[i] \notin received[r]
            /\ received[r] \subseteq sent[r]
            /\ \A s \in sent[r] : s \in received[r] \/ \E i \in DOMAIN old : old[i] = s
            /\ \A i \in DOMAIN old :
                  old[i] \in expected[r] \/ \E j \in 1..(i - 1) : old[i] \in Refs(old[j])
        BY <3>1, ZenonT(40) DEF StreamInv
      <3> HIDE DEF more, n, old
      <3>4. \A i \in DOMAIN more : i = n \/ (i \in DOMAIN old /\ more[i] = old[i] /\ more[i] # d)
        <4> SUFFICES ASSUME NEW i \in DOMAIN more, i # n
                     PROVE  i \in DOMAIN old /\ more[i] = old[i] /\ more[i] # d
          BY Zenon
        <4>1. i \in 1..(n - 1)
          BY <3>2, SMTT(40)
        <4>2. i \in DOMAIN old /\ more[i] = old[i]
          BY <3>2, <4>1, Zenon
        <4>3. more[i] \in sent[r]
          BY <3>3, <4>2, Zenon
        <4> QED BY <2>2, <4>2, <4>3, Zenon
      <3>5. \A i, j \in DOMAIN more : more[i] = more[j] => i = j
        BY <3>2, <3>3, <3>4
      <3>6. /\ \A i \in DOMAIN more : more[i] \in now /\ more[i] \notin received[r]
            /\ received[r] \subseteq now
        BY <2>2, <3>2, <3>3, <3>4, ZenonT(40)
      <3>7. \A s \in now : s \in received[r] \/ \E i \in DOMAIN more : more[i] = s
        BY <3>2, <3>3, SMTT(40)
      <3>8. d \in expected[r] \/ \E j \in 1..(n - 1) : d \in Refs(more[j])
        <4>1. CASE sent[r] = {} /\ d = root[r]
          BY <3>1, <3>3, <4>1, ZenonT(40) DEF ExpectInv
        <4>2. ASSUME NEW s \in sent[r], d \in Refs(s), s \in received[r] PROVE d \in expected[r]
          BY <2>2, <3>1, <3>3, <4>2, ZenonT(40) DEF ExpectInv
        <4>3. ASSUME NEW s \in sent[r], d \in Refs(s), s \notin received[r]
              PROVE  \E j \in 1..(n - 1) : d \in Refs(more[j])
          <5>1. PICK i \in DOMAIN old : old[i] = s
            BY <3>3, <4>3, Zenon
          <5>2. i \in 1..(n - 1) /\ more[i] = s
            BY <3>2, <5>1, Zenon
          <5> QED BY <4>3, <5>2, Zenon
        <4> QED BY <2>3, <4>1, <4>2, <4>3, ZenonT(40)
      <3>9. ASSUME NEW i \in DOMAIN more
            PROVE  more[i] \in expected[r] \/ \E j \in 1..(i - 1) : more[i] \in Refs(more[j])
        <4>1. CASE i = n
          BY <3>2, <3>8, <4>1, Zenon
        <4>2. CASE i # n
          <5>1. i \in 1..(n - 1) /\ more[i] = old[i] /\ \A j \in 1..(i - 1) : more[j] = old[j]
            BY <3>2, <4>2, SMTT(40)
          <5> QED BY <3>2, <3>3, <5>1, SMTT(40)
        <4> QED BY <4>1, <4>2, Zenon
      <3> HIDE DEF now
      <3>10. StreamInv(r)'
        BY <1>1, <2>1, <3>5, <3>6, <3>7, <3>9, ZenonT(40) DEF StreamInv
      <3>11. ExpectInv(r)'
        BY <1>1, <3>1, ZenonT(40) DEF ExpectInv
      <3> QED BY <3>10, <3>11, SMTT(40)
    <2>7. sent'[r] # {}
      BY <2>1
    <2> QED BY <1>0, <1>1, <2>1, <2>2, <2>5, <2>6, <2>7, ZenonT(40) DEF DownloadInv
  <1> QED BY <1>2, <1>3, SMTT(40)

-----------------------------------------------------------------------------
(* Before the first request the invariant holds.                           *)
LEMMA InitGrpcInv == GrpcInit => GrpcInv
  <1> SUFFICES ASSUME GrpcInit PROVE GrpcInv
    OBVIOUS
  <1>1. Init /\ UploadInit /\ DownloadInit /\ promised = [r \in Readers |-> FALSE]
    BY DEF GrpcInit
  <1>2. <<>> \in Seq(Dirs) /\ DOMAIN <<>> = {}
    BY SMTT(40)
  <1>3. EmptyGraph({}) \in Graph /\ GraphInv(EmptyGraph({})) /\ OrderInv(EmptyGraph({}))
    <2>1. EmptyGraph({}) \in Graph
      BY Zenon DEF EmptyGraph, Graph
    <2> QED BY <2>1, ZenonT(40) DEF EmptyGraph, GraphInv, OrderInv, Edges
  <1>4. UploadTypeOK
    BY <1>1, <1>2, <1>3, Zenon DEF UploadInit, UploadTypeOK
  <1>5. DownloadTypeOK
    BY <1>1, <1>2, Zenon DEF DownloadInit, DownloadTypeOK
  <1>6. ASSUME NEW c \in Uploaders PROVE UploadInv(c)
    <2>1. c \in Putters /\ pc[c] = "open" /\ rejected[c] = FALSE
      BY <1>1, UploadersAssumption, Zenon DEF Init
    <2>2. srv[c] = "receiving" /\ sgraph[c] = EmptyGraph({}) /\ cput[c] = "open" /\ task[c] = "running"
      BY <1>1, Zenon DEF UploadInit
    <2>3. DOMAIN accepted[c] = {}
      BY <1>1, <1>2, Zenon DEF UploadInit
    <2> QED BY <1>3, <2>1, <2>2, <2>3, Zenon DEF UploadInv, UploadData, AcceptedIn
  <1>7. ASSUME NEW r \in Readers PROVE DownloadInv(r)
    <2>1. cget[r] = "idle" /\ down[r] = <<>> /\ received[r] = {} /\ promised[r] = FALSE
      BY <1>1, Zenon DEF DownloadInit
    <2>2. rpc[r] = "idle" /\ sent[r] = {}
      BY <1>1 DEF Init
    <2> QED BY <2>1, <2>2, Zenon DEF DownloadInv, BelowRoot
  <1> QED BY <1>1, <1>4, <1>5, <1>6, <1>7, InitIInv, Zenon DEF GrpcInv

(* GrpcInv is inductive: one case per action of an upload or a download.   *)
LEMMA NextGrpcInv == GrpcInv /\ [GrpcNext]_allvars => GrpcInv'
  <1> SUFFICES ASSUME GrpcInv, [GrpcNext]_allvars PROVE GrpcInv'
    OBVIOUS
  <1>1. IInv'
    BY GrpcIsService, NextIInv, Zenon DEF GrpcInv
  <1>2. ASSUME NEW c \in Uploaders, Uploads(c) PROVE GrpcInv'
    <2>1. UploadStep(c) /\ UNCHANGED dvars /\ promised' = promised
      BY <1>2 DEF Uploads
    <2>2. UploadTypeOK' /\ UploadFrame(c)
      BY <2>1, UploadTypes, Zenon
    <2>3. DownloadTypeOK'
      BY <2>1, Zenon DEF GrpcInv, DownloadTypeOK, dvars
    <2>4. UploadInv(c)'
      <3>1. CASE \/ (\E d \in Dirs : ClientPut(c, d)) \/ ClientClose(c) \/ ClientClosed(c)
                 \/ ClientDrop(c) \/ TaskReturns(c) \/ ConnectionBreaks(c)
        BY <3>1, ClientUploadInv, Zenon
      <3>2. CASE ServerCloses(c) \/ (\E d \in Dirs : ServerStores(c, d)) \/ BackendFails(c)
        BY <1>1, <3>2, CloseUploadInv, Zenon
      <3>3. CASE ServerReceive(c) \/ ServerValidates(c) \/ \E d \in Dirs : ServerForwards(c, d)
        BY <3>3, ReceiveUploadInv, ValidatesUploadInv, ForwardsUploadInv, Zenon
      <3> QED BY <2>1, <3>1, <3>2, <3>3, Zenon DEF UploadStep, ServerStep
    <2>5. ASSUME NEW q \in Uploaders \ {c} PROVE UploadInv(q)'
      BY <2>2, QuietUpload, SMTT(40) DEF UploadFrame, GrpcInv
    <2>6. ASSUME NEW r \in Readers PROVE DownloadInv(r)'
      BY <2>1, <2>2, QuietDownload, ZenonT(40) DEF UploadFrame, GrpcInv, dvars, rvars
    <2> QED BY <1>1, <2>2, <2>3, <2>4, <2>5, <2>6, Zenon DEF GrpcInv
  <1>3. ASSUME NEW r \in Readers, Downloads(r) PROVE GrpcInv'
    <2>1. DownloadStep(r)
      BY <1>3 DEF Downloads
    <2>2. DownloadTypeOK' /\ DownloadFrame(r)
      BY <1>3, DownloadTypes, SMTT(40)
    <2>3. UploadTypeOK'
      BY <2>2, Zenon DEF GrpcInv, UploadTypeOK, DownloadFrame, uvars
    <2>4. DownloadInv(r)'
      BY <1>1, <1>3, <2>1, RequestDownloadInv, FailDownloadInv, EndDownloadInv, ReceiveDownloadInv,
         SendDownloadInv, Zenon DEF DownloadStep
    <2>5. ASSUME NEW q \in Readers \ {r} PROVE DownloadInv(q)'
      BY <2>2, QuietDownload, Zenon DEF DownloadFrame, GrpcInv
    <2>6. ASSUME NEW c \in Uploaders PROVE UploadInv(c)'
      BY <2>2, QuietUpload, Zenon DEF DownloadFrame, GrpcInv, Quiet, pvars, uvars
    <2> QED BY <1>1, <2>2, <2>3, <2>4, <2>5, <2>6, Zenon DEF GrpcInv
  <1>4. CASE UNCHANGED allvars
    <2>1. UploadTypeOK' /\ DownloadTypeOK'
      BY <1>4, SMTT(40) DEF GrpcInv, UploadTypeOK, DownloadTypeOK, allvars, uvars, dvars
    <2>2. ASSUME NEW c \in Uploaders PROVE UploadInv(c)'
      BY <1>4, QuietUpload, ZenonT(40) DEF GrpcInv, Quiet, allvars, uvars, vars
    <2>3. ASSUME NEW r \in Readers PROVE DownloadInv(r)'
      BY <1>4, QuietDownload, Zenon DEF GrpcInv, allvars, dvars, vars
    <2> QED BY <1>1, <2>1, <2>2, <2>3, Zenon DEF GrpcInv
  <1> QED BY <1>2, <1>3, <1>4 DEF GrpcNext

(* The handlers only do to their backend what SimplePutters and traversals *)
(* do: all that is proved of the directory service holds behind gRPC.      *)
THEOREM GrpcUsesService == GrpcSpec => Spec
  <1>1. GrpcInit => Init
    BY DEF GrpcInit
  <1> QED BY <1>1, GrpcIsService, PTL DEF GrpcSpec, Spec

(* Every reachable state of uploads and downloads together satisfies the   *)
(* inductive invariant.                                                    *)
THEOREM GrpcInvariance == GrpcSpec => []GrpcInv
  BY InitGrpcInv, NextGrpcInv, PTL DEF GrpcSpec

(* However puts, the handler and breaking connections interleave, a        *)
(* successful close() means that all accepted directories are stored.      *)
THEOREM UploadCorrect == GrpcSpec => []UploadMeansStored
  <1>1. GrpcInv => UploadMeansStored
    BY SMTT(40) DEF GrpcInv, UploadInv, UploadData, AcceptedIn, UploadMeansStored
  <1> QED BY <1>1, GrpcInvariance, PTL

(* The client of a download never meets a directory it does not expect nor *)
(* an early end, and what it got is the whole closure.                     *)
THEOREM DownloadCorrect == GrpcSpec => []DownloadComplete
  <1>1. GrpcInv => DownloadComplete
    BY Zenon DEF GrpcInv, DownloadInv, DownloadComplete
  <1> QED BY <1>1, GrpcInvariance, PTL

(* What was acknowledged before a download began is found by it.           *)
THEOREM ServedCorrect == GrpcSpec => []AcknowledgedIsServed
  <1>1. GrpcInv => AcknowledgedIsServed
    <2> SUFFICES ASSUME GrpcInv, NEW r \in Readers, promised[r], cget[r] = "empty" PROVE FALSE
      BY Zenon DEF AcknowledgedIsServed
    <2>1. promised[r] = TRUE
      BY DEF GrpcInv, DownloadTypeOK
    <2> QED BY <2>1, Zenon DEF GrpcInv, DownloadInv
  <1> QED BY <1>1, GrpcInvariance, PTL
=============================================================================
